---- MODULE Spec2Model ----
(***************************************************************************)
(* Model of the AIDS Memorial Quilt ingestion pipeline:                    *)
(*   - the change-tracking store behind DatabaseManager.upsert_record and  *)
(*     its caller MetadataExtractor.process_item_metadata,                 *)
(*   - IntegratedScraper.rate_limited_api_call,                            *)
(*   - manuscript discovery by probing,                                    *)
(*   - the image downloaders,                                              *)
(*   - IntegratedAIDSQuiltScraper.scrape_block_range with its image queue  *)
(*     and worker thread,                                                  *)
(*   - LOCAPIClient.get_item_metadata and get_collection_items,            *)
(*   - runs over an id range that are stopped and started again,           *)
(*   - ManuscriptDiscoveryService with its cache and its batch,            *)
(*   - the per-item step of the scrapers that download images inline,      *)
(*   - the image pool of ImageDownloader.download_images,                  *)
(*   - concurrent upserts and reads of one row of the store,               *)
(*   - the metadata extractors used as normalisation,                      *)
(*   - the probing of the image service under its semaphore,               *)
(*   - the statistics counters under the two threads of the scraper,       *)
(*   - the persisting of a block and its panels,                           *)
(*   - the images_downloaded flag,                                         *)
(*   - the record count and the pages of DatabaseManager.                  *)
(* Each component has its own specification; the variables of the other    *)
(* components stay at their initial value.                                 *)
(***************************************************************************)
EXTENDS Integers, Sequences, FiniteSets, TLC

VARIABLES
    store,          \* item_id -> stored row (domain = ids that have a row)
    clock,          \* wall clock read by the store (datetime.now())
    log,            \* history: one entry per process_item_metadata call
    api_delay,      \* IntegratedScraper.api_delay, in seconds
    last_api_call,  \* IntegratedScraper.last_api_call
    time,           \* time.time(), in seconds
    calls,          \* history: one entry per request sent by the limiter
    dPc,            \* discovery: "idle", "loop", "batch1", "batch2", "done"
    dFn,            \* discovery function running: "seq" or "batch"
    dK,             \* probe source: pages 1..dK exist
    dErr,           \* probe source: pages whose probe fails (HTTP 5xx, network)
    dNum,           \* ms_num of _discover_manuscripts
    dAvail,         \* available / available_manuscripts (page numbers)
    dTimedOut,      \* asyncio.timeout(timeout) expired during the probing
    iImpl,          \* image task run by: "async", "enhanced" or "worker"
    iPc,            \* position of the image task
    iAttempt,       \* attempt of the retry loop
    iFile,          \* content of the destination file
    iFile0,         \* content of the destination file when the task began
    iNet,           \* network requests of the task
    iResult,        \* how the task ended
    iRuns,          \* tasks begun for the destination
    operation_mode, \* IntegratedAIDSQuiltScraper.operation_mode
    shutdown_event, \* IntegratedAIDSQuiltScraper.shutdown_event is set
    image_queue,    \* IntegratedAIDSQuiltScraper.image_queue (FIFO)
    stats,          \* IntegratedAIDSQuiltScraper.stats (the counters used)
    oPc,            \* scrape_block_range: "idle", "start", "loop", "collected", "joining", "done"
    block_num,      \* block_num of scrape_block_range
    oCur,           \* history: what happened to the block processed last
    oFailed,        \* history: blocks whose fetch or storage failed
    wPc,            \* image_download_worker: "none", "check", "get", "downloading", "exited", "killed"
    wTask,          \* download_info the worker holds
    wLast,          \* history: how the worker's last task ended
    fPc,            \* LOCAPIClient call: "idle", "item", "paging", "done"
    fFn,            \* LOCAPIClient method called: "item" or "collection"
    fPage,          \* page of get_collection_items
    fReqs,          \* history: status answered to each request of the call
    fSleeps,        \* history: seconds slept by the call
    fResult,        \* what the call gave its caller
    fCalls,         \* calls of the client made
    rImpl,          \* range run by: "direct" or "integrated"
    rRemote,        \* remote data: id -> "notfound", "neterror" or a record
    rStoreErr,      \* ids whose upsert raises
    rPc,            \* range run: "idle", "run", "stopped", "done"
    rRuns,          \* range runs started
    rId,            \* id the run processes next
    rStats,         \* DirectIDScraper.stats / IntegratedScraper.stats
    rLast,          \* history: what happened to the id processed last
    rFailures,      \* history: ids processed that failed
    rFirst,         \* history: id -> clock of its first successful upsert
    mRemote,        \* discovery: item id -> metadata the remote holds
    discovery_cache, \* ManuscriptDiscoveryService.discovery_cache
    mTask,          \* discover_manuscripts_batch: id -> "none", "waiting", "fetching", "done"
    mOps,           \* discover calls made
    mLast,          \* history: the discover call that returned last
    mReturned,      \* history: id -> what discover returned last since the cache was cleared
    pImpl,          \* item step: the scraper, "integrated", "withimages" or "enhanced"
    pHasImages,     \* item step: id -> the metadata of the item has image_urls
    pId,            \* item step: the id the range loop is at
    pPc,            \* item step: position of the orchestrator in the step
    pImages,        \* item step: id -> "none", "queued", "running", "done"
    pResult,        \* item step: id -> "none", "missing", "processed", "terminated"
    pShutdown,      \* item step: "none", "flag" (shutdown event set) or "interrupt"
    pLate,          \* history: ids whose processing began after the shutdown request
    pSignalled,     \* history: the id and the position of the loop when shutdown was requested
    kLimit,         \* image pool: settings.max_concurrent_downloads
    kPermits,       \* image pool: value of ImageDownloader.semaphore
    kTasks,         \* image pool: task -> "none", "waiting", "running", "done", "failed"
    kAttempt,       \* image pool: task -> attempt of its retry loop
    kCalls,         \* image pool: download_images calls made
    kSubmitted,     \* history: tasks the running download_images call gathered
    tInit,          \* transactions: the rows of the id before the upserts
    tRows,          \* transactions: the committed rows of the id
    tClock,         \* transactions: the clock
    tLock,          \* transactions: the writer inside its transaction, or 0
    tW,             \* transactions: writer -> its upsert in progress
    tOrder,         \* history: the writers in the order of their commits
    tObs,           \* history: what the read queries returned
    tVersions,      \* history: the committed versions of the rows of the id
    nPayload,       \* normalisation: the payload handed to the extractor
    nImpl,          \* normalisation: the extractor that ran, "none", "basic" or "enhanced"
    nResult,        \* normalisation: what the extractor returned
    qPhase,         \* probing: "idle", "start", "standard", "extended", "done", "timeout"
    qTasks,         \* probing: task -> "none", "waiting", "head", "done"
    qPattern,       \* probing: task -> url pattern of its HEAD request
    qPermits,       \* probing: value of the semaphore
    qFound,         \* probing: the tasks that returned a manuscript id
    uStats,         \* counters: the shared stats dict (the counters of the image path)
    uRead,          \* counters: thread -> the item it read and has not written back
    uOps,           \* history: counter -> increments performed on it
    uStarted,       \* counters: increments started
    bStore,         \* block persist: the rows of the block in the database
    bBefore,        \* history: the rows of the block before the persist
    bTodo,          \* block persist: manuscripts whose panel is still to be saved
    bPc,            \* block persist: "idle", "block", "panels", "done"
    bErrors,        \* block persist: database_errors counted
    bResult,        \* block persist: what store_metadata_in_database returned
    gFlag,          \* image flag: id -> images_downloaded of the record
    gFiles,         \* image flag: id -> validated image files of the record on disk
    gTasks,         \* image flag: id -> image tasks of the record that completed
    gTodo,          \* image flag: the records _download_missing_images has still to go through
    gPc,            \* image flag: "idle", "start", "marking", "done"
    gMarked,        \* image flag: stats['images_downloaded'] of the run
    gErrors,        \* image flag: stats['errors'] of the run
    hItems,         \* database: rows of collection_items
    hBlocks,        \* database: rows of quilt_blocks
    hPanels,        \* database: rows of quilt_panels, as <<block, number>>
    hPrimary,       \* database: DatabaseManager._primary_data_source ("unset": None)
    hPc,            \* database: "idle", "new", "ready"
    hTotal,         \* history: what get_total_records returned last
    hPaged,         \* history: the records the last paging through get_records reached
    hReads          \* history: reads made, up to 2

storeVars == <<store, clock, log>>

limVars == <<api_delay, last_api_call, time, calls>>

discVars == <<dPc, dFn, dK, dErr, dNum, dAvail, dTimedOut>>

imgVars == <<iImpl, iPc, iAttempt, iFile, iFile0, iNet, iResult, iRuns>>

orchVars == <<operation_mode, shutdown_event, image_queue, stats, oPc,
              block_num, oCur, oFailed, wPc, wTask, wLast>>

fetchVars == <<fPc, fFn, fPage, fReqs, fSleeps, fResult, fCalls>>

runVars == <<rImpl, rRemote, rStoreErr, rPc, rRuns, rId, rStats, rLast,
             rFailures, rFirst>>

mdsVars == <<mRemote, discovery_cache, mTask, mOps, mLast, mReturned>>

itemVars == <<pImpl, pHasImages, pId, pPc, pImages, pResult, pShutdown, pLate, pSignalled>>

poolVars == <<kLimit, kPermits, kTasks, kAttempt, kCalls, kSubmitted>>

txVars == <<tInit, tRows, tClock, tLock, tW, tOrder, tObs, tVersions>>

normVars == <<nPayload, nImpl, nResult>>

probeVars == <<qPhase, qTasks, qPattern, qPermits, qFound>>

statVars == <<uStats, uRead, uOps, uStarted>>

blkVars == <<bStore, bBefore, bTodo, bPc, bErrors, bResult>>

flagVars == <<gFlag, gFiles, gTasks, gTodo, gPc, gMarked, gErrors>>

dbVars == <<hItems, hBlocks, hPanels, hPrimary, hPc, hTotal, hPaged, hReads>>

\* the variables of the components added after the range runs
restVars == <<mdsVars, itemVars, poolVars, txVars, normVars, probeVars, statVars, blkVars, flagVars, dbVars>>

vars == <<store, clock, log, api_delay, last_api_call, time, calls,
          dPc, dFn, dK, dErr, dNum, dAvail, dTimedOut,
          iImpl, iPc, iAttempt, iFile, iFile0, iNet, iResult, iRuns,
          operation_mode, shutdown_event, image_queue, stats, oPc,
          block_num, oCur, oFailed, wPc, wTask, wLast,
          fPc, fFn, fPage, fReqs, fSleeps, fResult, fCalls,
          rImpl, rRemote, rStoreErr, rPc, rRuns, rId, rStats, rLast,
          rFailures, rFirst,
          restVars>>

----------------------------------------------------------------------------
(* Bounds                                                                  *)

MaxOps == 3

Ids == {1, 2}

Titles == {"Block 1", "Block 1 Updated"}

SubjectLists == {<<1, 2>>, <<2, 1>>, <<1>>}

NameLists == {<<1, 2>>, <<2, 1>>}

Records == [title : Titles, subjects : SubjectLists, names : NameLists]

NoRecord == [title |-> "", subjects |-> <<>>, names |-> <<>>]

----------------------------------------------------------------------------
(* Change-tracking store                                                   *)

RECURSIVE Insert(_, _)
Insert(x, s) ==
    IF s = <<>> THEN <<x>>
    ELSE IF x <= Head(s) THEN <<x>> \o s
    ELSE <<Head(s)>> \o Insert(x, Tail(s))

RECURSIVE Sorted(_)
Sorted(s) == IF s = <<>> THEN <<>> ELSE Insert(Head(s), Sorted(Tail(s)))

ContentHashUnsorted(rec) == <<rec.title, rec.subjects, rec.names>>

\* digest over the canonical projection, set-typed fields sorted
ContentHash(rec) == <<rec.title, Sorted(rec.subjects), Sorted(rec.names)>>

UpsertResultChangedAsNew(st, id, rec) ==
    IF id \notin DOMAIN st THEN "New"
    ELSE IF st[id].content_hash # ContentHash(rec) THEN "New"
    ELSE "Unchanged"

UpsertResult(st, id, rec) ==
    IF id \notin DOMAIN st THEN "New"
    ELSE IF st[id].content_hash # ContentHash(rec) THEN "Changed"
    ELSE "Unchanged"

NewRowNeverChecked(rec, now) ==
    [title |-> rec.title, subjects |-> rec.subjects, names |-> rec.names,
     content_hash |-> ContentHash(rec),
     first_seen |-> now, last_updated |-> now, last_checked |-> 0,
     images_downloaded |-> FALSE]

\* the row inserted for an id that has none
NewRow(rec, now) ==
    [title |-> rec.title, subjects |-> rec.subjects, names |-> rec.names,
     content_hash |-> ContentHash(rec),
     first_seen |-> now, last_updated |-> now, last_checked |-> now,
     images_downloaded |-> FALSE]

UpsertRowKeepsHash(st, id, rec, now) ==
    IF id \notin DOMAIN st THEN NewRow(rec, now)
    ELSE IF st[id].content_hash # ContentHash(rec)
         THEN [st[id] EXCEPT !.title = rec.title, !.subjects = rec.subjects,
                             !.names = rec.names,
                             !.last_updated = now, !.last_checked = now]
    ELSE [st[id] EXCEPT !.last_checked = now]

UpsertRowStaleCheck(st, id, rec, now) ==
    IF id \notin DOMAIN st THEN NewRow(rec, now)
    ELSE IF st[id].content_hash # ContentHash(rec)
         THEN [st[id] EXCEPT !.title = rec.title, !.subjects = rec.subjects,
                             !.names = rec.names,
                             !.content_hash = ContentHash(rec),
                             !.last_updated = now, !.last_checked = now]
    ELSE st[id]

UpsertRowResetsFirstSeen(st, id, rec, now) ==
    IF id \notin DOMAIN st THEN NewRow(rec, now)
    ELSE IF st[id].content_hash # ContentHash(rec)
         THEN [st[id] EXCEPT !.title = rec.title, !.subjects = rec.subjects,
                             !.names = rec.names,
                             !.content_hash = ContentHash(rec),
                             !.last_updated = now, !.last_checked = now]
    ELSE [st[id] EXCEPT !.first_seen = now, !.last_checked = now]

\* an unchanged record would be written over the stored fields
UpsertRowUnchangedRewritesFields(st, id, rec, now) ==
    IF id \notin DOMAIN st THEN NewRow(rec, now)
    ELSE IF st[id].content_hash # ContentHash(rec)
         THEN [st[id] EXCEPT !.title = rec.title, !.subjects = rec.subjects,
                             !.names = rec.names,
                             !.content_hash = ContentHash(rec),
                             !.last_updated = now, !.last_checked = now]
    ELSE [st[id] EXCEPT !.title = rec.title, !.subjects = rec.subjects,
                        !.names = rec.names, !.last_checked = now]

\* a changed record would leave last_checked as it was
UpsertRowChangedSkipsCheck(st, id, rec, now) ==
    IF id \notin DOMAIN st THEN NewRow(rec, now)
    ELSE IF st[id].content_hash # ContentHash(rec)
         THEN [st[id] EXCEPT !.title = rec.title, !.subjects = rec.subjects,
                             !.names = rec.names,
                             !.content_hash = ContentHash(rec),
                             !.last_updated = now]
    ELSE [st[id] EXCEPT !.last_checked = now]

\* the row upsert leaves for id
UpsertRow(st, id, rec, now) ==
    IF id \notin DOMAIN st THEN NewRow(rec, now)
    ELSE IF st[id].content_hash # ContentHash(rec)
         THEN [st[id] EXCEPT !.title = rec.title, !.subjects = rec.subjects,
                             !.names = rec.names,
                             !.content_hash = ContentHash(rec),
                             !.last_updated = now, !.last_checked = now]
    ELSE [st[id] EXCEPT !.last_checked = now]

UpsertStore(st, id, rec, now) ==
    [i \in DOMAIN st \cup {id} |->
        IF i = id THEN UpsertRow(st, id, rec, now) ELSE st[i]]

\* MetadataExtractor.process_item_metadata: extract the id, upsert, report
\* whether the record was new or changed
ProcessItemMetadata(id, rec, idOk) ==
    /\ Len(log) < MaxOps
    /\ IF ~idOk
       THEN /\ log' = Append(log, [id |-> 0, rec |-> NoRecord, result |-> "NoId",
                                   was_updated |-> FALSE, now |-> clock,
                                   before |-> <<>>, after |-> <<>>])
            /\ UNCHANGED <<store, clock>>
       ELSE LET now == clock + 1
                res == UpsertResult(store, id, rec)
                st2 == UpsertStore(store, id, rec, now)
            IN /\ clock' = now
               /\ store' = st2
               /\ log' = Append(log,
                     [id |-> id, rec |-> rec, result |-> res,
                      was_updated |-> (res \in {"New", "Changed"}),
                      now |-> now,
                      before |-> IF id \in DOMAIN store THEN <<store[id]>> ELSE <<>>,
                      after |-> <<st2[id]>>])
    /\ UNCHANGED <<limVars, discVars, imgVars, orchVars, fetchVars, runVars, restVars>>

StoreNext == \E id \in Ids, rec \in Records, idOk \in BOOLEAN :
                ProcessItemMetadata(id, rec, idOk)

----------------------------------------------------------------------------
(* Rate limiter: IntegratedScraper.rate_limited_api_call                   *)

MaxCalls == 3

\* time.time() when the scraper is constructed; last_api_call starts at 0
StartTime == 200

\* Settings.rate_limit_delay: any number of seconds, default 1
ConfiguredDelays == {1, 30, 100, 150}

\* seconds the caller spends between two calls of the limiter
IdleTimes == {0, 1, 3}

\* seconds a request takes
Durations == {0, 1}

DelayCeiling == 120

Min(a, b) == IF a < b THEN a ELSE b

\* the delay after an HTTP 429
Backoff(delay) == Min(delay * 2, DelayCeiling)

\* seconds rate_limited_api_call sleeps before it awaits the request
WaitTime(t, last, delay) ==
    IF t - last < delay THEN delay - (t - last) ELSE 0

\* one call of rate_limited_api_call, the semaphore held from the first to
\* the last line: sleep out the rest of api_delay since last_api_call,
\* send the request, and on success record the time, on a 429 double
\* api_delay up to the ceiling; every other error changes nothing
RateLimitedApiCall(idle, dur, outcome) ==
    /\ Len(calls) < MaxCalls
    /\ LET t0    == time + idle
           start == t0 + WaitTime(t0, last_api_call, api_delay)
           end   == start + dur
       IN /\ time' = end
          /\ last_api_call' = IF outcome = "ok" THEN end ELSE last_api_call
          /\ api_delay' = IF outcome = "429" THEN Backoff(api_delay) ELSE api_delay
          /\ calls' = Append(calls, [start |-> start, delay |-> api_delay,
                                     outcome |-> outcome,
                                     delay_after |-> api_delay'])
    /\ UNCHANGED <<storeVars, discVars, imgVars, orchVars, fetchVars, runVars, restVars>>

LimNext == \E idle \in IdleTimes, dur \in Durations, outcome \in {"ok", "429", "error"} :
              RateLimitedApiCall(idle, dur, outcome)

----------------------------------------------------------------------------
(* Manuscript discovery by probing the image service                       *)

\* the largest page count of a probe source
MaxPages == 100

\* _discover_manuscripts probes ms_num in range(1, 100)
SeqProbeLast == 99

\* _discover_manuscripts falls back to ms0001..ms0056
FallbackLast == 56

\* _discover_from_iiif_probing probes range(1, 21), then range(21, 57)
FirstBatchLast == 20

ExtendedBatchLast == 56

\* the answer of the probe source for page n
ProbeStatus(n) ==
    IF n \in dErr THEN 500
    ELSE IF n <= dK THEN 200
    ELSE 404

\* MetadataExtractor._discover_manuscripts is called
SeqDiscoverStart ==
    /\ dPc = "idle"
    /\ dPc' = "loop"
    /\ dFn' = "seq"
    /\ dNum' = 1
    /\ dAvail' = {}
    /\ UNCHANGED <<dK, dErr, dTimedOut, storeVars, limVars, imgVars, orchVars, fetchVars, runVars, restVars>>

\* what _discover_manuscripts returns when its loop ends with avail
SeqResult(avail) == IF avail = {} THEN 1..FallbackLast ELSE avail

\* the loop of _discover_manuscripts ends after the probe of page n
SeqLoopEnds(n, status) == status = 404 \/ n = SeqProbeLast

\* one iteration of the loop of _discover_manuscripts: 200 appends the
\* page, 404 breaks, everything else continues with the next page
SeqProbe ==
    /\ dPc = "loop"
    /\ dFn = "seq"
    /\ LET status == ProbeStatus(dNum)
           avail  == IF status = 200 THEN dAvail \cup {dNum} ELSE dAvail
       IN IF SeqLoopEnds(dNum, status)
          THEN /\ dAvail' = SeqResult(avail)
               /\ dPc' = "done"
               /\ dNum' = dNum
          ELSE /\ dAvail' = avail
               /\ dNum' = dNum + 1
               /\ dPc' = "loop"
    /\ UNCHANGED <<dFn, dK, dErr, dTimedOut, storeVars, limVars, imgVars, orchVars, fetchVars, runVars, restVars>>

\* check_manuscript_endpoint: the page is found when a URL pattern
\* answers 200
EndpointFound(n) == ProbeStatus(n) = 200

\* IntegratedAIDSQuiltScraper._discover_from_iiif_probing is called
BatchDiscoverStart ==
    /\ dPc = "idle"
    /\ dPc' = "batch1"
    /\ dFn' = "batch"
    /\ dAvail' = {}
    /\ UNCHANGED <<dK, dErr, dNum, dTimedOut, storeVars, limVars, imgVars, orchVars, fetchVars, runVars, restVars>>

\* the first gather: pages ms0001..ms0020; the extended range follows only
\* when a page was found
FirstBatch ==
    /\ dPc = "batch1"
    /\ LET found == {n \in 1..FirstBatchLast : EndpointFound(n)}
       IN /\ dAvail' = found
          /\ dPc' = IF found # {} THEN "batch2" ELSE "done"
    /\ UNCHANGED <<dFn, dK, dErr, dNum, dTimedOut, storeVars, limVars, imgVars, orchVars, fetchVars, runVars, restVars>>

ExtendedRangeShort == (FirstBatchLast + 1)..(ExtendedBatchLast - 1)

\* range(21, 57)
ExtendedRange == (FirstBatchLast + 1)..ExtendedBatchLast

\* the second gather: pages ms0021..ms0056
ExtendedBatch ==
    /\ dPc = "batch2"
    /\ dAvail' = dAvail \cup {n \in ExtendedRange : EndpointFound(n)}
    /\ dPc' = "done"
    /\ UNCHANGED <<dFn, dK, dErr, dNum, dTimedOut, storeVars, limVars, imgVars, orchVars, fetchVars, runVars, restVars>>

\* asyncio.timeout expires during a gather: the pages of that gather are
\* not added
ProbingTimeout ==
    /\ dPc \in {"batch1", "batch2"}
    /\ dTimedOut' = TRUE
    /\ dPc' = "done"
    /\ UNCHANGED <<dFn, dK, dErr, dNum, dAvail, storeVars, limVars, imgVars, orchVars, fetchVars, runVars, restVars>>

DiscNext ==
    \/ SeqDiscoverStart
    \/ SeqProbe
    \/ BatchDiscoverStart
    \/ FirstBatch
    \/ ExtendedBatch
    \/ ProbingTimeout

----------------------------------------------------------------------------
(* Image downloaders                                                       *)

\* tasks begun for one destination file
MaxRuns == 2

\* download_image(max_retries = 3)
AsyncMaxRetries == 3

\* _download_single_image(max_retries = 3): range(max_retries + 1) attempts
EnhMaxRetries == 3

\* _download_image_with_retry(max_retries = 4)
WorkerMaxRetries == 4

\* contents of a destination file: none, zero bytes, a truncated image that
\* PIL cannot open, a truncated image whose header PIL verifies, a complete
\* file that is no image, a complete image
FileStates == {"absent", "empty", "partial", "partial_passing", "invalid", "valid"}

\* what an interrupted or failed write leaves behind
BrokenWrites == {"empty", "partial", "partial_passing"}

Exists(f) == f # "absent"

\* _validate_image_data / _validate_image_data_sync on the file's bytes
Validates(f) == f \in {"valid", "partial_passing"}

AsyncSkipsNever(f) == FALSE

\* download_image: skip if the file exists and is valid
AsyncSkips(f) == Exists(f) /\ Validates(f)

\* _download_single_image: skip if the file exists
EnhSkips(f) == Exists(f)

\* _download_image_with_retry: skip if the file exists
WorkerSkips(f) == Exists(f)

ImgUnchanged == UNCHANGED <<storeVars, limVars, discVars, orchVars, fetchVars, runVars, restVars>>

\* a task for the destination begins
BeginTask(impl, skips, pc) ==
    /\ iPc \in {"idle", "done"}
    /\ iRuns < MaxRuns
    /\ iRuns' = iRuns + 1
    /\ iImpl' = impl
    /\ iFile0' = iFile
    /\ iNet' = 0
    /\ iAttempt' = 0
    /\ iFile' = iFile
    /\ IF skips
       THEN iPc' = "done" /\ iResult' = "ok"
       ELSE iPc' = pc /\ iResult' = "none"
    /\ ImgUnchanged

\* the task ends
EndTask(result) ==
    /\ iPc' = "done"
    /\ iResult' = result
    /\ iAttempt' = iAttempt

\* the retry loop goes to its next attempt, or ends when attempts are used up
NextAttempt(pc, attempts, exhausted) ==
    IF iAttempt + 1 < attempts
    THEN iPc' = pc /\ iAttempt' = iAttempt + 1 /\ iResult' = iResult
    ELSE EndTask(exhausted)

\* ImageDownloader.download_image begins
AsyncStart == BeginTask("async", AsyncSkips(iFile), "a_get")

\* download_image: one session.get of the retry loop; valid image data is
\* written to output_path opened with mode 'wb'
AsyncGet(resp) ==
    /\ iPc = "a_get"
    /\ iNet' = iNet + 1
    /\ CASE resp = "200valid" ->
              /\ iFile' = "empty"
              /\ iPc' = "a_write"
              /\ UNCHANGED <<iAttempt, iResult>>
         [] resp = "404" ->
              /\ iFile' = iFile
              /\ EndTask("fail")
         [] OTHER ->
              /\ iFile' = iFile
              /\ NextAttempt("a_get", AsyncMaxRetries, "raised")
    /\ UNCHANGED <<iImpl, iFile0, iRuns>>
    /\ ImgUnchanged

\* download_image: f.write(image_data) completes, or raises
AsyncWrite(written, left) ==
    /\ iPc = "a_write"
    /\ IF written
       THEN iFile' = "valid" /\ EndTask("ok")
       ELSE iFile' = left /\ NextAttempt("a_get", AsyncMaxRetries, "raised")
    /\ UNCHANGED <<iImpl, iFile0, iNet, iRuns>>
    /\ ImgUnchanged

\* image_downloader_enhanced.ImageDownloader._download_single_image begins
EnhStart == BeginTask("enhanced", EnhSkips(iFile), "e_get")

\* _download_single_image: session.get; an image response opens filepath
\* with mode 'wb' and streams the chunks into it
EnhGet(resp) ==
    /\ iPc = "e_get"
    /\ iNet' = iNet + 1
    /\ CASE resp = "image200" ->
              /\ iFile' = "empty"
              /\ iPc' = "e_stream"
              /\ UNCHANGED <<iAttempt, iResult>>
         [] resp = "clienterror" ->
              /\ iFile' = iFile
              /\ NextAttempt("e_get", EnhMaxRetries + 1, "fail")
         [] OTHER ->
              /\ iFile' = iFile
              /\ EndTask("fail")
    /\ UNCHANGED <<iImpl, iFile0, iRuns>>
    /\ ImgUnchanged

\* _download_single_image: the chunks are written; the stream ends with the
\* whole body in the file, or breaks with a ClientError and the file is
\* left as it is
EnhStream(body, left) ==
    /\ iPc = "e_stream"
    /\ CASE body = "reset" ->
              /\ iFile' = left
              /\ NextAttempt("e_get", EnhMaxRetries + 1, "fail")
         [] OTHER ->
              /\ iFile' = body
              /\ iPc' = "e_verify"
              /\ UNCHANGED <<iAttempt, iResult>>
    /\ UNCHANGED <<iImpl, iFile0, iNet, iRuns>>
    /\ ImgUnchanged

\* _download_single_image: Image.open(filepath).verify(); an invalid file
\* is removed and the download retried
EnhVerify ==
    /\ iPc = "e_verify"
    /\ IF Validates(iFile)
       THEN iFile' = iFile /\ EndTask("ok")
       ELSE iFile' = "absent" /\ NextAttempt("e_get", EnhMaxRetries + 1, "fail")
    /\ UNCHANGED <<iImpl, iFile0, iNet, iRuns>>
    /\ ImgUnchanged

\* IntegratedAIDSQuiltScraper._download_image_with_retry begins
WorkerStart == BeginTask("worker", WorkerSkips(iFile), "w_sync")

\* download_image_sync, called by an attempt of _download_image_with_retry:
\* skip a valid file, else session.get and validate the content
WorkerSync(resp) ==
    /\ iPc = "w_sync"
    /\ IF Exists(iFile) /\ Validates(iFile)
       THEN /\ iNet' = iNet
            /\ iFile' = iFile
            /\ EndTask("ok")
       ELSE /\ iNet' = iNet + 1
            /\ IF resp = "200valid"
               THEN /\ iFile' = "empty"
                    /\ iPc' = "w_write"
                    /\ UNCHANGED <<iAttempt, iResult>>
               ELSE /\ iFile' = iFile
                    /\ NextAttempt("w_sync", WorkerMaxRetries, "fail")
    /\ UNCHANGED <<iImpl, iFile0, iRuns>>
    /\ ImgUnchanged

\* download_image_sync: f.write(response.content) completes, or raises
WorkerWrite(written, left) ==
    /\ iPc = "w_write"
    /\ IF written
       THEN iFile' = "valid" /\ EndTask("ok")
       ELSE iFile' = left /\ NextAttempt("w_sync", WorkerMaxRetries, "fail")
    /\ UNCHANGED <<iImpl, iFile0, iNet, iRuns>>
    /\ ImgUnchanged

\* the process is stopped while a file is being written (the worker is a
\* daemon thread; asyncio tasks are cancelled on KeyboardInterrupt)
Interrupted(left) ==
    /\ iPc \in {"a_write", "e_stream", "w_write"}
    /\ iFile' = left
    /\ EndTask("interrupted")
    /\ UNCHANGED <<iImpl, iFile0, iNet, iRuns>>
    /\ ImgUnchanged

ImgNext ==
    \/ AsyncStart
    \/ \E resp \in {"200valid", "200invalid", "404", "429", "error"} : AsyncGet(resp)
    \/ \E written \in BOOLEAN, left \in BrokenWrites : AsyncWrite(written, left)
    \/ EnhStart
    \/ \E resp \in {"image200", "notimage", "clienterror", "unexpected"} : EnhGet(resp)
    \/ \E body \in {"valid", "invalid", "reset"}, left \in BrokenWrites : EnhStream(body, left)
    \/ EnhVerify
    \/ WorkerStart
    \/ \E resp \in {"200valid", "200invalid", "error"} : WorkerSync(resp)
    \/ \E written \in BOOLEAN, left \in BrokenWrites : WorkerWrite(written, left)
    \/ \E left \in BrokenWrites : Interrupted(left)

----------------------------------------------------------------------------
(* LOCAPIClient.get_item_metadata: what one request gives the caller       *)

\* answers of the remote to one request: an HTTP status or a network error
Responses == {"200", "404", "429", "500", "neterr"}

\* `except Exception as e: raise LOCAPIError(f"Unexpected error: {e}")`:
\* every exception raised inside the try block, LOCAPIRateLimitError
\* included, leaves as a LOCAPIError that carries the first message
ExceptException(r) ==
    IF r.kind = "raise" THEN [r EXCEPT !.exc = "LOCAPIError"] ELSE r

\* a 404 would be raised like every other unexpected status
GetItemMetadataRaisesOn404(resp) ==
    CASE resp = "200" -> [kind |-> "data", exc |-> "none", ratelimit |-> FALSE]
      [] resp = "429" -> ExceptException([kind |-> "raise", exc |-> "LOCAPIRateLimitError", ratelimit |-> TRUE])
      [] resp = "neterr" -> [kind |-> "raise", exc |-> "LOCAPIError", ratelimit |-> FALSE]
      [] OTHER -> ExceptException([kind |-> "raise", exc |-> "LOCAPIError", ratelimit |-> FALSE])

\* get_item_metadata after one answer: the data, None, or an exception with
\* its class and whether its message says "rate limit"
GetItemMetadata(resp) ==
    CASE resp = "200" -> [kind |-> "data", exc |-> "none", ratelimit |-> FALSE]
      [] resp = "404" -> [kind |-> "none", exc |-> "none", ratelimit |-> FALSE]
      [] resp = "429" -> ExceptException([kind |-> "raise", exc |-> "LOCAPIRateLimitError", ratelimit |-> TRUE])
      [] resp = "neterr" -> [kind |-> "raise", exc |-> "LOCAPIError", ratelimit |-> FALSE]
      [] OTHER -> ExceptException([kind |-> "raise", exc |-> "LOCAPIError", ratelimit |-> FALSE])

----------------------------------------------------------------------------
(* Orchestrator: IntegratedAIDSQuiltScraper.scrape_block_range and its     *)
(* image download worker thread                                            *)

\* bound: blocks of the range, start_id = 1 and end_id = MaxBlocks
MaxBlocks == 2

\* bound: image tasks that fail in one run
MaxImageFailures == 1

\* operation modes that scrape blocks (db-sync scrapes none)
OperationModes == {"full", "metadata", "images"}

\* resolutions of queue_images_for_download
Resolutions == <<"200", "400", "800", "1200", "full">>

\* resolutions of generate_iiif_urls
IiifSizes == <<"pct:100", "pct:50", "pct:25", "pct:12.5", "pct:6.25">>

\* manuscript sets that discover_available_manuscripts returns for a block
PageSets == {{}, {1, 2, 3}}

\* outcomes of store_metadata_in_database: block created, block updated,
\* neither save_block nor update_block_metadata succeeded, an exception,
\* block created but saving a panel raised
DbOutcomes == {"created", "updated", "failed", "raised", "panel_error"}

ZeroStats == [api_errors |-> 0, rate_limit_errors |-> 0, database_errors |-> 0,
              image_errors |-> 0, images_queued |-> 0, images_downloaded |-> 0]

\* the None that stop_image_download_thread puts on the queue
Sentinel == [block_id |-> 0, manuscript_id |-> 0, resolution |-> "None"]

NoBlock == [block |-> 0, resp |-> "none", fetch |-> "none", pages |-> {},
            upsert |-> "skipped", called |-> FALSE, cut |-> FALSE,
            queued |-> <<>>]

NoDownload == [ok |-> TRUE, attempts |-> 0, delays |-> <<>>]

\* sorted(manuscripts)
RECURSIVE SortedPages(_)
SortedPages(S) ==
    IF S = {} THEN <<>>
    ELSE LET m == CHOOSE x \in S : \A y \in S : x <= y
         IN <<m>> \o SortedPages(S \ {m})

\* the last resolution would be left out
DownloadInfosWithoutFull(block, pages) ==
    LET sp == SortedPages(pages)
        r  == Len(Resolutions) - 1
    IN [k \in 1..(Len(sp) * r) |->
           [block_id |-> block,
            manuscript_id |-> sp[((k - 1) \div r) + 1],
            resolution |-> Resolutions[((k - 1) % r) + 1]]]

\* the download_info records of queue_images_for_download, in the order of
\* its two loops: manuscripts sorted, resolutions in list order
DownloadInfos(block, pages) ==
    LET sp == SortedPages(pages)
        r  == Len(Resolutions)
    IN [k \in 1..(Len(sp) * r) |->
           [block_id |-> block,
            manuscript_id |-> sp[((k - 1) \div r) + 1],
            resolution |-> Resolutions[((k - 1) % r) + 1]]]

\* ManuscriptDiscoveryService.generate_iiif_urls: one URL for each manuscript
\* at each size
GenerateIiifUrls(item, pages) ==
    LET sp == SortedPages(pages)
        r  == Len(IiifSizes)
    IN [k \in 1..(Len(sp) * r) |->
           <<item, sp[((k - 1) \div r) + 1], IiifSizes[((k - 1) % r) + 1]>>]

\* store_metadata_in_database: what it returns and the database_errors it adds
StoreMetadataInDatabase(db) ==
    [ok |-> db \in {"created", "updated", "panel_error"},
     errors |-> IF db \in {"failed", "raised", "panel_error"} THEN 1 ELSE 0]

\* numbers of tasks put before a signal sets the shutdown event, of n tasks
CutPoints(n) == {0, n \div 2, n - 1} \cap (0..(n - 1))

\* attempts a task may take: 0 when the file existed, else 1..max_retries
AttemptChoices == {0, 1, WorkerMaxRetries}

\* `delay = (2 ** attempt) * 1.0` of _download_image_with_retry
RetryDelay(attempt) == 2 ^ attempt

\* the sleeps of a task that took the given number of attempts: one after
\* each attempt but the last
RetryDelays(attempts) ==
    [a \in 1..(IF attempts > 0 THEN attempts - 1 ELSE 0) |-> RetryDelay(a - 1)]

OrchUnchanged == UNCHANGED <<storeVars, limVars, discVars, imgVars, fetchVars, runVars, restVars>>

\* scrape_block_range begins: start_image_download_thread
ScrapeBlockRangeStart ==
    /\ oPc = "start"
    /\ oPc' = "loop"
    /\ block_num' = 1
    /\ wPc' = IF operation_mode \in {"metadata"} THEN "none" ELSE "check"
    /\ UNCHANGED <<operation_mode, shutdown_event, image_queue, stats, oCur,
                   oFailed, wTask, wLast>>
    /\ OrchUnchanged

\* SIGINT or SIGTERM: signal_handler sets the shutdown event
SignalHandler ==
    /\ oPc \in {"loop", "collected"}
    /\ ~shutdown_event
    /\ shutdown_event' = TRUE
    /\ UNCHANGED <<operation_mode, image_queue, stats, oPc, block_num, oCur,
                   oFailed, wPc, wTask, wLast>>
    /\ OrchUnchanged

\* collect_and_store_metadata did not get or did not store the block
BlockFailed(resp, db) ==
    /\ operation_mode # "images"
    /\ \/ GetItemMetadata(resp).kind = "raise"
       \/ GetItemMetadata(resp).kind = "data" /\ ~StoreMetadataInDatabase(db).ok

\* collect_and_store_metadata: the counters and what it returns.  In
\* images mode it returns (None, set()) at once; a fetch that raises counts
\* as a rate limit error or an API error by its message; no metadata
\* counts as an API error; otherwise the manuscripts are discovered and
\* the block is stored, and (metadata, manuscripts) is returned whether or
\* not the storing succeeded
CollectEffects(resp, pages, db) ==
    LET fetch  == GetItemMetadata(resp)
        stored == StoreMetadataInDatabase(db)
        got    == operation_mode # "images" /\ fetch.kind = "data"
    IN /\ stats' =
            IF operation_mode = "images" THEN stats
            ELSE IF fetch.kind = "raise" /\ fetch.ratelimit
                 THEN [stats EXCEPT !.rate_limit_errors = @ + 1]
            ELSE IF fetch.kind \in {"raise", "none"}
                 THEN [stats EXCEPT !.api_errors = @ + 1]
            ELSE [stats EXCEPT !.database_errors = @ + stored.errors]
       /\ oCur' = [block |-> block_num,
                   resp |-> IF operation_mode = "images" THEN "none" ELSE resp,
                   fetch |-> IF operation_mode = "images" THEN "skipped" ELSE fetch.kind,
                   pages |-> IF got THEN pages ELSE {},
                   upsert |-> IF ~got THEN "skipped"
                              ELSE IF ~stored.ok THEN "failed"
                              ELSE IF db = "updated" THEN "updated" ELSE "created",
                   called |-> FALSE, cut |-> FALSE, queued |-> <<>>]
       /\ oFailed' = IF BlockFailed(resp, db) THEN oFailed \cup {block_num} ELSE oFailed

\* a failed block would end the loop
CollectAndStoreMetadataAborts(resp, pages, db) ==
    /\ oPc = "loop"
    /\ block_num <= MaxBlocks
    /\ ~shutdown_event
    /\ CollectEffects(resp, pages, db)
    /\ IF BlockFailed(resp, db)
       THEN oPc' = "loop" /\ block_num' = MaxBlocks + 1
       ELSE oPc' = "collected" /\ block_num' = block_num
    /\ UNCHANGED <<operation_mode, shutdown_event, image_queue, wPc, wTask, wLast>>
    /\ OrchUnchanged

\* one block of the loop of scrape_block_range, up to the return of
\* collect_and_store_metadata (which catches every exception)
CollectAndStoreMetadata(resp, pages, db) ==
    /\ oPc = "loop"
    /\ block_num <= MaxBlocks
    /\ ~shutdown_event
    /\ CollectEffects(resp, pages, db)
    /\ oPc' = "collected"
    /\ block_num' = block_num
    /\ UNCHANGED <<operation_mode, shutdown_event, image_queue, wPc, wTask, wLast>>
    /\ OrchUnchanged

\* the rest of the block: queue_images_for_download when there are
\* manuscripts and the mode downloads images, then the sleep.  A signal
\* may set the shutdown event after `after` tasks were put; the inner loop
\* then breaks for every remaining manuscript.
QueueImagesForDownload(sig, after) ==
    /\ oPc = "collected"
    /\ LET pages  == oCur.pages
           called == pages # {} /\ operation_mode \in {"full", "images"}
           infos  == DownloadInfos(oCur.block, pages)
           n      == IF ~called \/ shutdown_event THEN 0
                     ELSE IF sig THEN after ELSE Len(infos)
       IN /\ sig => (called /\ ~shutdown_event /\ after \in CutPoints(Len(infos)))
          /\ ~sig => after = 0
          /\ image_queue' = image_queue \o SubSeq(infos, 1, n)
          /\ stats' = [stats EXCEPT !.images_queued = @ + n]
          /\ shutdown_event' = (shutdown_event \/ sig)
          /\ oCur' = [oCur EXCEPT !.called = called,
                                  !.cut = (called /\ n < Len(infos)),
                                  !.queued = SubSeq(infos, 1, n)]
    /\ oPc' = "loop"
    /\ block_num' = block_num + 1
    /\ UNCHANGED <<operation_mode, oFailed, wPc, wTask, wLast>>
    /\ OrchUnchanged

\* the loop ends (range done, or shutdown seen at the top of the loop) and
\* the finally block runs stop_image_download_thread: when the thread is
\* alive set the shutdown event, put the sentinel, and join
StopImageDownloadThread ==
    /\ oPc = "loop"
    /\ block_num > MaxBlocks \/ shutdown_event
    /\ IF wPc \in {"check", "get", "downloading"}
       THEN /\ shutdown_event' = TRUE
            /\ image_queue' = Append(image_queue, Sentinel)
            /\ oPc' = "joining"
       ELSE /\ oPc' = "done"
            /\ UNCHANGED <<shutdown_event, image_queue>>
    /\ UNCHANGED <<operation_mode, stats, block_num, oCur, oFailed, wPc, wTask, wLast>>
    /\ OrchUnchanged

\* image_thread.join(timeout=10) returns because the worker ended
JoinReturns ==
    /\ oPc = "joining"
    /\ wPc = "exited"
    /\ oPc' = "done"
    /\ UNCHANGED <<operation_mode, shutdown_event, image_queue, stats, block_num,
                   oCur, oFailed, wPc, wTask, wLast>>
    /\ OrchUnchanged

\* image_thread.join(timeout=10) returns after 10 seconds while the worker
\* is still in a download ("did not stop gracefully")
JoinTimesOut ==
    /\ oPc = "joining"
    /\ wPc = "downloading"
    /\ oPc' = "done"
    /\ UNCHANGED <<operation_mode, shutdown_event, image_queue, stats, block_num,
                   oCur, oFailed, wPc, wTask, wLast>>
    /\ OrchUnchanged

\* the process ends after scrape_block_range returned: the worker is a
\* daemon thread (daemon=True) and is stopped in the middle of its download
ProcessExit ==
    /\ oPc = "done"
    /\ wPc = "downloading"
    /\ wPc' = "killed"
    /\ UNCHANGED <<operation_mode, shutdown_event, image_queue, stats, oPc,
                   block_num, oCur, oFailed, wTask, wLast>>
    /\ OrchUnchanged

\* image_download_worker: `while not self.shutdown_event.is_set()`
ImageWorkerCheck ==
    /\ wPc = "check"
    /\ wPc' = IF shutdown_event THEN "exited" ELSE "get"
    /\ UNCHANGED <<operation_mode, shutdown_event, image_queue, stats, oPc,
                   block_num, oCur, oFailed, wTask, wLast>>
    /\ OrchUnchanged

\* image_download_worker: `self.image_queue.get(timeout=1)`; queue.Empty
\* goes back to the check, None ends the worker
ImageWorkerGet ==
    /\ wPc = "get"
    /\ IF image_queue = <<>>
       THEN /\ wPc' = "check"
            /\ UNCHANGED <<image_queue, wTask>>
       ELSE /\ image_queue' = Tail(image_queue)
            /\ wTask' = Head(image_queue)
            /\ wPc' = IF Head(image_queue) = Sentinel THEN "exited" ELSE "downloading"
    /\ UNCHANGED <<operation_mode, shutdown_event, stats, oPc, block_num, oCur,
                   oFailed, wLast>>
    /\ OrchUnchanged

\* a failed task would end the worker
ImageWorkerDownloadStopsOnFailure(attempts, ok) ==
    /\ wPc = "downloading"
    /\ ok \/ (attempts = WorkerMaxRetries /\ stats.image_errors < MaxImageFailures)
    /\ stats' = IF ok THEN [stats EXCEPT !.images_downloaded = @ + 1]
                ELSE [stats EXCEPT !.image_errors = @ + 1]
    /\ wLast' = [ok |-> ok, attempts |-> attempts, delays |-> RetryDelays(attempts)]
    /\ wPc' = IF ok THEN "check" ELSE "exited"
    /\ UNCHANGED <<operation_mode, shutdown_event, image_queue, oPc, block_num,
                   oCur, oFailed, wTask>>
    /\ OrchUnchanged

\* image_download_worker: _download_image_with_retry on the task, then the
\* counters and task_done.  attempts = 0: the file existed.  A task that
\* succeeds does so in one of the max_retries attempts, a task that fails
\* used all of them.
ImageWorkerDownload(attempts, ok) ==
    /\ wPc = "downloading"
    /\ ok \/ (attempts = WorkerMaxRetries /\ stats.image_errors < MaxImageFailures)
    /\ stats' = IF ok THEN [stats EXCEPT !.images_downloaded = @ + 1]
                ELSE [stats EXCEPT !.image_errors = @ + 1]
    /\ wLast' = [ok |-> ok, attempts |-> attempts, delays |-> RetryDelays(attempts)]
    /\ wPc' = "check"
    /\ UNCHANGED <<operation_mode, shutdown_event, image_queue, oPc, block_num,
                   oCur, oFailed, wTask>>
    /\ OrchUnchanged

WorkerNext ==
    \/ ImageWorkerCheck
    \/ ImageWorkerGet
    \/ \E attempts \in AttemptChoices, ok \in BOOLEAN : ImageWorkerDownload(attempts, ok)

OrchNext ==
    \/ ScrapeBlockRangeStart
    \/ SignalHandler
    \/ \E resp \in Responses, pages \in PageSets, db \in DbOutcomes :
          CollectAndStoreMetadata(resp, pages, db)
    \/ \E sig \in BOOLEAN, after \in 0..Len(DownloadInfos(oCur.block, oCur.pages)) :
          QueueImagesForDownload(sig, after)
    \/ StopImageDownloadThread
    \/ JoinReturns
    \/ JoinTimesOut
    \/ ProcessExit
    \/ WorkerNext

----------------------------------------------------------------------------
(* LOCAPIClient: get_item_metadata, search_collection, get_collection_items *)

\* bound: calls of the client in a behaviour
MaxFetchCalls == 3

\* bound: requests of one get_collection_items call
MaxRequests == 5

\* answers of the remote to one search request: a full page of
\* items_per_page results, a shorter last page, a page without results,
\* or a failure
SearchResponses == {"200full", "200short", "200empty", "429", "500", "neterr"}

\* seconds slept by get_collection_items, in tenths: asyncio.sleep(0.5)
\* between pages and asyncio.sleep(5) after LOCAPIRateLimitError
PageDelay == 5

RateLimitDelay == 50

NoResult == [kind |-> "none", exc |-> "none", ratelimit |-> FALSE]

\* search_collection after one answer: the results or an exception; as in
\* get_item_metadata the `except Exception` clause turns every exception
\* raised in the try block into a plain LOCAPIError
SearchCollection(resp) ==
    CASE resp \in {"200full", "200short", "200empty"} ->
             [kind |-> "data", exc |-> "none", ratelimit |-> FALSE]
      [] resp = "429" -> ExceptException([kind |-> "raise", exc |-> "LOCAPIRateLimitError", ratelimit |-> TRUE])
      [] resp = "neterr" -> [kind |-> "raise", exc |-> "LOCAPIError", ratelimit |-> FALSE]
      [] OTHER -> ExceptException([kind |-> "raise", exc |-> "LOCAPIError", ratelimit |-> FALSE])

FetchUnchanged == UNCHANGED <<storeVars, limVars, discVars, imgVars, orchVars, runVars, restVars>>

\* get_item_metadata: one request, and its answer decides the result
GetItemMetadataCall(resp) ==
    /\ fPc \in {"idle", "done"}
    /\ fCalls < MaxFetchCalls
    /\ fCalls' = fCalls + 1
    /\ fFn' = "item"
    /\ fPage' = 0
    /\ fReqs' = <<resp>>
    /\ fSleeps' = <<>>
    /\ fResult' = GetItemMetadata(resp)
    /\ fPc' = "done"
    /\ FetchUnchanged

\* get_collection_items is called (max_items = None)
GetCollectionItemsStart ==
    /\ fPc \in {"idle", "done"}
    /\ fCalls < MaxFetchCalls
    /\ fCalls' = fCalls + 1
    /\ fFn' = "collection"
    /\ fPage' = 1
    /\ fReqs' = <<>>
    /\ fSleeps' = <<>>
    /\ fResult' = NoResult
    /\ fPc' = "paging"
    /\ FetchUnchanged

\* one turn of the `while True` loop of get_collection_items: sleep when
\* page > 1, search the page; LOCAPIRateLimitError sleeps and retries the
\* page, any other LOCAPIError ends the loop, as does a page that is
\* empty or short; the items gathered are returned
GetCollectionItemsPage(resp) ==
    /\ fPc = "paging"
    /\ Len(fReqs) < MaxRequests
    /\ LET r     == SearchCollection(resp)
           slept == IF fPage > 1 THEN Append(fSleeps, PageDelay) ELSE fSleeps
       IN /\ fReqs' = Append(fReqs, resp)
          /\ IF r.kind = "raise" /\ r.exc = "LOCAPIRateLimitError"
             THEN /\ fSleeps' = Append(slept, RateLimitDelay)
                  /\ UNCHANGED <<fPc, fPage, fResult>>
             ELSE IF r.kind = "raise" \/ resp \in {"200short", "200empty"}
             THEN /\ fSleeps' = slept
                  /\ fPc' = "done"
                  /\ fResult' = [kind |-> "items", exc |-> "none", ratelimit |-> FALSE]
                  /\ fPage' = fPage
             ELSE /\ fSleeps' = slept
                  /\ fPage' = fPage + 1
                  /\ UNCHANGED <<fPc, fResult>>
    /\ UNCHANGED <<fFn, fCalls>>
    /\ FetchUnchanged

FetchNext ==
    \/ \E resp \in Responses : GetItemMetadataCall(resp)
    \/ GetCollectionItemsStart
    \/ \E resp \in SearchResponses : GetCollectionItemsPage(resp)

----------------------------------------------------------------------------
(* Runs over an id range: DirectIDScraper.scrape_by_id_ranges and          *)
(* IntegratedScraper.scrape_collection, stopped and started again          *)

\* bound: ids of the range, start_id = 1 and end_id = MaxIds
MaxIds == 3

\* what the remote holds for an id: nothing, a record, or a request that
\* fails every time
RemoteValues == {"notfound", "neterror", "recA", "recB"}

\* the record fetched for a remote value
RemoteRecord(v) ==
    IF v = "recA"
    THEN [title |-> "Block 1", subjects |-> <<1, 2>>, names |-> <<2, 1>>]
    ELSE [title |-> "Block 1 Updated", subjects |-> <<2, 1>>, names |-> <<1, 2>>]

ZeroRunStats == [items_processed |-> 0, items_found |-> 0, items_new |-> 0,
                 items_missing |-> 0, items_saved |-> 0, errors |-> 0]

NoItem == [id |-> 0, outcome |-> "none"]

RunUnchanged == UNCHANGED <<log, limVars, discVars, imgVars, orchVars, fetchVars, restVars>>

\* the loop variable after an id: the next id, and the run is done after
\* the last one
AfterId ==
    /\ rId' = rId + 1
    /\ rPc' = IF rId = MaxIds THEN "done" ELSE "run"

\* DirectIDScraper: one id of scrape_by_id_ranges.  _process_direct_id
\* catches every exception of the fetch and returns False, like for an id
\* that is not found; process_item_metadata catches every exception of the
\* upsert and returns False, like for an unchanged record
ProcessDirectId ==
    /\ rPc = "run"
    /\ rImpl = "direct"
    /\ LET v == rRemote[rId]
       IN IF v \in {"notfound", "neterror"}
          THEN /\ rStats' = [rStats EXCEPT !.items_processed = @ + 1,
                                          !.items_missing = @ + 1]
               /\ rLast' = [id |-> rId, outcome |-> v]
               /\ rFailures' = IF v = "neterror" THEN rFailures \cup {rId} ELSE rFailures
               /\ UNCHANGED <<store, clock, rFirst>>
          ELSE IF rId \in rStoreErr
          THEN /\ rStats' = [rStats EXCEPT !.items_processed = @ + 1,
                                          !.items_found = @ + 1]
               /\ rLast' = [id |-> rId, outcome |-> "storeerror"]
               /\ rFailures' = rFailures \cup {rId}
               /\ UNCHANGED <<store, clock, rFirst>>
          ELSE LET now == clock + 1
                   res == UpsertResult(store, rId, RemoteRecord(v))
               IN /\ clock' = now
                  /\ store' = UpsertStore(store, rId, RemoteRecord(v), now)
                  /\ rFirst' = IF rId \in DOMAIN rFirst THEN rFirst
                               ELSE [i \in DOMAIN rFirst \cup {rId} |->
                                        IF i = rId THEN now ELSE rFirst[i]]
                  /\ rStats' = [rStats EXCEPT
                        !.items_processed = @ + 1,
                        !.items_found = @ + 1,
                        !.items_new = IF res \in {"New", "Changed"} THEN @ + 1 ELSE @]
                  /\ rLast' = [id |-> rId, outcome |-> res]
                  /\ UNCHANGED rFailures
    /\ AfterId
    /\ UNCHANGED <<rImpl, rRemote, rStoreErr, rRuns>>
    /\ RunUnchanged

\* IntegratedScraper: one id of scrape_collection.  process_single_item
\* skips the fetch for an id that item_exists reports; an id without
\* details returns False; every exception adds to stats['errors']
ProcessSingleItem ==
    /\ rPc = "run"
    /\ rImpl = "integrated"
    /\ LET v == rRemote[rId]
       IN IF rId \in DOMAIN store
          THEN /\ rStats' = [rStats EXCEPT !.items_processed = @ + 1]
               /\ rLast' = [id |-> rId, outcome |-> "exists"]
               /\ UNCHANGED <<store, clock, rFirst, rFailures>>
          ELSE IF v = "notfound"
          THEN /\ rLast' = [id |-> rId, outcome |-> v]
               /\ UNCHANGED <<store, clock, rFirst, rFailures, rStats>>
          ELSE IF v = "neterror" \/ rId \in rStoreErr
          THEN /\ rStats' = [rStats EXCEPT !.errors = @ + 1]
               /\ rLast' = [id |-> rId,
                            outcome |-> IF v = "neterror" THEN v ELSE "storeerror"]
               /\ rFailures' = rFailures \cup {rId}
               /\ UNCHANGED <<store, clock, rFirst>>
          ELSE LET now == clock + 1
                   res == UpsertResult(store, rId, RemoteRecord(v))
               IN /\ clock' = now
                  /\ store' = UpsertStore(store, rId, RemoteRecord(v), now)
                  /\ rFirst' = [i \in DOMAIN rFirst \cup {rId} |->
                                   IF i = rId THEN now ELSE rFirst[i]]
                  /\ rStats' = [rStats EXCEPT !.items_processed = @ + 1,
                                             !.items_saved = @ + 1]
                  /\ rLast' = [id |-> rId, outcome |-> res]
                  /\ UNCHANGED rFailures
    /\ AfterId
    /\ UNCHANGED <<rImpl, rRemote, rStoreErr, rRuns>>
    /\ RunUnchanged

\* the first run is stopped between two ids (KeyboardInterrupt, kill)
RunInterrupted ==
    /\ rPc = "run"
    /\ rRuns = 1
    /\ rPc' = "stopped"
    /\ UNCHANGED <<store, clock, rImpl, rRemote, rStoreErr, rRuns, rId, rStats,
                   rLast, rFailures, rFirst>>
    /\ RunUnchanged

\* a new process runs the rest of the range from an id at or before the id
\* the first run stopped at; its counters start at zero, the database is
\* the one the first run left
RunRestarted(from) ==
    /\ rPc = "stopped"
    /\ from \in 1..rId
    /\ rPc' = "run"
    /\ rRuns' = rRuns + 1
    /\ rId' = from
    /\ rStats' = ZeroRunStats
    /\ rFailures' = {}
    /\ rLast' = NoItem
    /\ UNCHANGED <<store, clock, rImpl, rRemote, rStoreErr, rFirst>>
    /\ RunUnchanged

RunNext ==
    \/ ProcessDirectId
    \/ ProcessSingleItem
    \/ RunInterrupted
    \/ \E from \in 1..MaxIds : RunRestarted(from)

----------------------------------------------------------------------------
(* ManuscriptDiscoveryService: discover_manuscripts_for_item with its      *)
(* cache, its caller discover_available_manuscripts, and                   *)
(* discover_manuscripts_batch                                              *)

\* bound: item ids known to the service
MaxMdsIds == 2

\* bound: discover calls in a behaviour
MaxMdsOps == 3

\* ManuscriptDiscoveryService(max_concurrent=5)
MaxConcurrent == 5

\* LOCAPIClient._semaphore = asyncio.Semaphore(5)
ClientSemaphore == 5

\* `min(files_count + 1, 101)`: at most ms0001..ms0100
CountCeiling == 100

MdsIds == 1..MaxMdsIds

\* no metadata: None of a 404, or no item_metadata argument
NoMetadata == [kind |-> "none", item |-> FALSE, files |-> 0, pages |-> 0]

\* metadata of the remote: without an 'item' key, with a file count in the
\* first resource, with a count in the 'pages' field, without any count
Metadatas ==
    {[kind |-> "dict", item |-> FALSE, files |-> 0, pages |-> 0],
     [kind |-> "dict", item |-> TRUE, files |-> 2, pages |-> 0],
     [kind |-> "dict", item |-> TRUE, files |-> 0, pages |-> 3],
     [kind |-> "dict", item |-> TRUE, files |-> 0, pages |-> 0]}

\* the metadata carries a count the discovery can use
HasCount(md) == md.kind = "dict" /\ md.item /\ (md.files > 0 \/ md.pages > 0)

\* _extract_from_resources: ms0001..ms<files> of the first resource with
\* a positive file count
ExtractFromResources(md) ==
    IF md.files > 0
    THEN 1..(IF md.files < CountCeiling THEN md.files ELSE CountCeiling)
    ELSE {}

\* _extract_from_item_fields: the count fields, else the single page ms0001
ExtractFromItemFields(md) ==
    IF md.pages > 0
    THEN 1..(IF md.pages < CountCeiling THEN md.pages ELSE CountCeiling)
    ELSE {1}

\* _extract_from_metadata: nothing for metadata without 'item', else the
\* resources, else the item fields
ExtractFromMetadata(md) ==
    IF md.kind # "dict" \/ ~md.item THEN {}
    ELSE IF ExtractFromResources(md) # {} THEN ExtractFromResources(md)
    ELSE ExtractFromItemFields(md)

NoDiscovery == [id |-> 0, via |-> "none", fetched |-> NoMetadata, passed |-> FALSE,
                hit |-> FALSE, calls |-> 0, failed |-> FALSE, result |-> {},
                service |-> {}, before |-> {}, known |-> FALSE]

\* the cache after a result
CachedNever(cache, id, manuscripts) == cache

\* `if manuscripts: self.discovery_cache[item_id] = manuscripts`
Cached(cache, id, manuscripts) ==
    IF manuscripts = {} THEN cache
    ELSE [i \in DOMAIN cache \cup {id} |-> IF i = id THEN manuscripts ELSE cache[i]]

\* discover_manuscripts_for_item(item_id, item_metadata) on a cache miss:
\* the manuscripts, the get_item_metadata calls made and whether the call
\* raised.  ok: the answer of get_item_metadata arrives (else it raises)
DiscoverMiss(id, md, ok) ==
    LET first == IF md.kind = "dict" THEN ExtractFromMetadata(md) ELSE {}
        fresh == mRemote[id]
    IN IF first # {} THEN [result |-> first, calls |-> 0, failed |-> FALSE]
       ELSE IF ~ok THEN [result |-> {}, calls |-> 1, failed |-> TRUE]
       ELSE [result |-> IF fresh.kind = "dict" THEN ExtractFromMetadata(fresh) ELSE {},
             calls |-> 1, failed |-> FALSE]

MdsUnchanged == UNCHANGED <<storeVars, limVars, discVars, imgVars, orchVars, fetchVars, runVars, itemVars, poolVars, txVars, normVars, probeVars, statVars, blkVars, flagVars, dbVars>>

\* the history of what discover_manuscripts_for_item returned last for each
\* id since the cache was cleared
Returned(id, result) ==
    [i \in DOMAIN mReturned \cup {id} |-> IF i = id THEN result ELSE mReturned[i]]

\* a caller awaits discover_manuscripts_for_item(item_id, item_metadata);
\* md = NoMetadata: the argument is left out
DiscoverManuscriptsForItem(id, md, ok) ==
    /\ mOps < MaxMdsOps
    /\ \A i \in MdsIds : mTask[i] \in {"none", "done"}
    /\ mOps' = mOps + 1
    /\ IF id \in DOMAIN discovery_cache
       THEN /\ mLast' = [id |-> id, via |-> "direct", fetched |-> md,
                         passed |-> md.kind = "dict", hit |-> TRUE, calls |-> 0,
                         failed |-> FALSE, result |-> discovery_cache[id],
                         service |-> discovery_cache[id],
                         before |-> IF id \in DOMAIN mReturned THEN mReturned[id] ELSE {},
                         known |-> id \in DOMAIN mReturned]
            /\ UNCHANGED discovery_cache
       ELSE LET r == DiscoverMiss(id, md, ok)
            IN /\ mLast' = [id |-> id, via |-> "direct", fetched |-> md,
                            passed |-> md.kind = "dict", hit |-> FALSE,
                            calls |-> r.calls, failed |-> r.failed, result |-> r.result,
                            service |-> r.result,
                            before |-> IF id \in DOMAIN mReturned THEN mReturned[id] ELSE {},
                            known |-> id \in DOMAIN mReturned]
               /\ discovery_cache' = Cached(discovery_cache, id, r.result)
    /\ mReturned' = Returned(id, mLast'.service)
    /\ UNCHANGED <<mRemote, mTask>>
    /\ MdsUnchanged

\* IntegratedAIDSQuiltScraper.discover_available_manuscripts, called by
\* collect_and_store_metadata after it fetched the metadata of the block:
\* the service is called without that metadata; when it returns nothing the
\* fallback strategies fetch the metadata again and probe.  fb: the pages
\* the fallback strategies find, {} when each of them fails
DiscoverAvailableManuscripts(id, ok, fb) ==
    /\ mOps < MaxMdsOps
    /\ \A i \in MdsIds : mTask[i] \in {"none", "done"}
    /\ mRemote[id].kind = "dict"
    /\ mOps' = mOps + 1
    /\ LET hit == id \in DOMAIN discovery_cache
           r   == IF hit THEN [result |-> discovery_cache[id], calls |-> 0, failed |-> FALSE]
                  ELSE DiscoverMiss(id, NoMetadata, ok)
       IN /\ (r.result # {} => fb = {})
          /\ mLast' = [id |-> id, via |-> "orchestrator", fetched |-> mRemote[id],
                       passed |-> FALSE, hit |-> hit,
                       calls |-> IF r.result # {} THEN r.calls ELSE r.calls + 1,
                       failed |-> r.failed /\ fb = {},
                       result |-> IF r.result # {} THEN r.result ELSE fb,
                       service |-> r.result,
                       before |-> IF id \in DOMAIN mReturned THEN mReturned[id] ELSE {},
                       known |-> id \in DOMAIN mReturned]
          /\ discovery_cache' = IF hit THEN discovery_cache
                                ELSE Cached(discovery_cache, id, r.result)
    /\ mReturned' = Returned(id, mLast'.service)
    /\ UNCHANGED <<mRemote, mTask>>
    /\ MdsUnchanged

\* clear_cache
ClearCache ==
    /\ discovery_cache # <<>>
    /\ \A i \in MdsIds : mTask[i] \in {"none", "done"}
    /\ discovery_cache' = <<>>
    /\ mReturned' = <<>>
    /\ UNCHANGED <<mRemote, mTask, mOps, mLast>>
    /\ MdsUnchanged

\* get_item_metadata calls that wait for their answer
InFlight == {i \in MdsIds : mTask[i] = "fetching"}

\* discover_manuscripts_batch(item_ids): asyncio.gather over one task for
\* each id
DiscoverManuscriptsBatch(ids) ==
    /\ mOps < MaxMdsOps
    /\ ids # {}
    /\ \A i \in MdsIds : mTask[i] = "none"
    /\ mOps' = mOps + 1
    /\ mTask' = [i \in MdsIds |-> IF i \in ids THEN "waiting" ELSE "none"]
    /\ UNCHANGED <<mRemote, discovery_cache, mLast, mReturned>>
    /\ MdsUnchanged

\* a task of the batch runs up to its first suspension: `async with
\* semaphore`, the cache check, and on a miss `async with self._semaphore`
\* of get_item_metadata and the request
BatchTaskStarts(id) ==
    /\ mTask[id] = "waiting"
    /\ Cardinality(InFlight) < MaxConcurrent
    /\ Cardinality(InFlight) < ClientSemaphore
    /\ IF id \in DOMAIN discovery_cache
       THEN /\ mTask' = [mTask EXCEPT ![id] = "done"]
            /\ mLast' = [id |-> id, via |-> "batch", fetched |-> NoMetadata,
                         passed |-> FALSE, hit |-> TRUE, calls |-> 0,
                         failed |-> FALSE, result |-> discovery_cache[id],
                         service |-> discovery_cache[id],
                         before |-> IF id \in DOMAIN mReturned THEN mReturned[id] ELSE {},
                         known |-> id \in DOMAIN mReturned]
            /\ mReturned' = Returned(id, discovery_cache[id])
       ELSE /\ mTask' = [mTask EXCEPT ![id] = "fetching"]
            /\ UNCHANGED <<mLast, mReturned>>
    /\ UNCHANGED <<mRemote, discovery_cache, mOps>>
    /\ MdsUnchanged

\* the answer of get_item_metadata arrives for a task of the batch, or the
\* call raises: the task extracts, caches and returns
BatchTaskReturns(id, ok) ==
    /\ mTask[id] = "fetching"
    /\ LET r == DiscoverMiss(id, NoMetadata, ok)
       IN /\ mLast' = [id |-> id, via |-> "batch", fetched |-> NoMetadata,
                       passed |-> FALSE, hit |-> FALSE, calls |-> r.calls,
                       failed |-> r.failed, result |-> r.result,
                       service |-> r.result,
                       before |-> IF id \in DOMAIN mReturned THEN mReturned[id] ELSE {},
                       known |-> id \in DOMAIN mReturned]
          /\ discovery_cache' = Cached(discovery_cache, id, r.result)
          /\ mReturned' = Returned(id, r.result)
    /\ mTask' = [mTask EXCEPT ![id] = "done"]
    /\ UNCHANGED <<mRemote, mOps>>
    /\ MdsUnchanged

\* the gather of the batch returns
BatchReturns ==
    /\ \E i \in MdsIds : mTask[i] = "done"
    /\ \A i \in MdsIds : mTask[i] \in {"none", "done"}
    /\ mTask' = [i \in MdsIds |-> "none"]
    /\ UNCHANGED <<mRemote, discovery_cache, mOps, mLast, mReturned>>
    /\ MdsUnchanged

MdsNext ==
    \/ \E id \in MdsIds, md \in Metadatas \cup {NoMetadata}, ok \in BOOLEAN :
          DiscoverManuscriptsForItem(id, md, ok)
    \/ \E id \in MdsIds, ok \in BOOLEAN, fb \in {{}, {1, 2}} :
          DiscoverAvailableManuscripts(id, ok, fb)
    \/ ClearCache
    \/ \E ids \in SUBSET MdsIds : DiscoverManuscriptsBatch(ids)
    \/ \E id \in MdsIds : BatchTaskStarts(id)
    \/ \E id \in MdsIds, ok \in BOOLEAN : BatchTaskReturns(id, ok)
    \/ BatchReturns

----------------------------------------------------------------------------
(* The per-item step of the three range scrapers and their image tasks.    *)
(* IntegratedScraper.process_single_item starts the image task and awaits  *)
(* it before it returns; DirectIDScraperWithImages._process_item awaits    *)
(* download_images inline; scrape_block_range of enhanced_scraper.py puts  *)
(* the images on the queue of the worker thread and goes on. A shutdown    *)
(* request sets the shutdown event of enhanced_scraper.py, which the loop  *)
(* reads at the top of each iteration; the two other scrapers have no      *)
(* flag: the interrupt ends the run at the await it is suspended on.       *)

MaxItemIds == 3

ItemIds == 1..MaxItemIds

ItemImpls == {"integrated", "withimages", "enhanced"}

ItemUnchanged == UNCHANGED <<storeVars, limVars, discVars, imgVars, orchVars, fetchVars, runVars, mdsVars, poolVars, txVars, normVars, probeVars, statVars, blkVars, flagVars, dbVars>>

\* the orchestrator is suspended on the image downloads of the id it is at
AwaitingImages == pPc = "await_images"

\* the loop would begin the next id whatever the shutdown event says
MayBeginIgnoringShutdown == TRUE

\* `if self.shutdown_event.is_set(): break`: an id is begun only while the
\* shutdown event is not set
MayBegin == pShutdown # "flag"

NotSignalled == [id |-> 0, pc |-> "none"]

\* get_item_details (and get_item_resources, extract): the item is missing,
\* or its metadata is there
ItemFetch(found) ==
    /\ pImpl \in ItemImpls
    /\ pPc = "fetch"
    /\ MayBegin
    /\ pLate' = IF pShutdown # "none" THEN pLate \cup {pId} ELSE pLate
    /\ IF ~found
         THEN /\ pResult' = [pResult EXCEPT ![pId] = "missing"]
              /\ pPc' = "next"
              /\ UNCHANGED pImages
         ELSE /\ UNCHANGED pResult
              /\ CASE pImpl = "integrated" ->
                        \* image_task = asyncio.create_task(...) before the
                        \* upsert
                        /\ pImages' = [pImages EXCEPT ![pId] =
                              IF pHasImages[pId] THEN "running" ELSE "none"]
                        /\ pPc' = "persist"
                   [] pImpl = "withimages" ->
                        \* await self.image_downloader.download_images(...)
                        \* before save_metadata
                        /\ pImages' = [pImages EXCEPT ![pId] =
                              IF pHasImages[pId] THEN "running" ELSE "none"]
                        /\ pPc' = IF pHasImages[pId] THEN "await_images"
                                                    ELSE "persist"
                   [] OTHER ->
                        /\ UNCHANGED pImages
                        /\ pPc' = "persist"
    /\ UNCHANGED <<pImpl, pHasImages, pId, pShutdown, pSignalled>>
    /\ ItemUnchanged

\* upsert_record / save_metadata / store_metadata_in_database
ItemPersist ==
    /\ pImpl \in ItemImpls
    /\ pPc = "persist"
    /\ CASE pImpl = "integrated" ->
              \* `if image_task: downloaded_files = await image_task`
              /\ pPc' = IF pImages[pId] = "none" THEN "next"
                                                 ELSE "await_images"
              /\ pResult' = IF pImages[pId] = "none"
                              THEN [pResult EXCEPT ![pId] = "processed"]
                              ELSE pResult
              /\ UNCHANGED pImages
         [] pImpl = "withimages" ->
              /\ pPc' = "next"
              /\ pResult' = [pResult EXCEPT ![pId] = "processed"]
              /\ UNCHANGED pImages
         [] OTHER ->
              \* queue_images_for_download (its loop breaks when the
              \* shutdown event is set), then the loop goes on
              /\ pPc' = "next"
              /\ pResult' = [pResult EXCEPT ![pId] = "processed"]
              /\ pImages' = [pImages EXCEPT ![pId] =
                    IF pHasImages[pId] /\ pShutdown = "none" THEN "queued"
                    ELSE "none"]
    /\ UNCHANGED <<pImpl, pHasImages, pId, pShutdown, pLate, pSignalled>>
    /\ ItemUnchanged

\* the image worker thread of enhanced_scraper.py takes a queued task
ItemWorkerTakes(i) ==
    /\ pImpl = "enhanced"
    /\ pImages[i] = "queued"
    /\ \A j \in ItemIds : pImages[j] # "running"
    /\ pImages' = [pImages EXCEPT ![i] = "running"]
    /\ UNCHANGED <<pImpl, pHasImages, pId, pPc, pResult, pShutdown, pLate, pSignalled>>
    /\ ItemUnchanged

\* the downloads of one item come to their end
ItemImagesComplete(i) ==
    /\ pImpl \in ItemImpls
    /\ pImages[i] = "running"
    /\ pImages' = [pImages EXCEPT ![i] = "done"]
    /\ UNCHANGED <<pImpl, pHasImages, pId, pPc, pResult, pShutdown, pLate, pSignalled>>
    /\ ItemUnchanged

\* the await of the image task or of download_images returns
ItemAwaitReturns ==
    /\ pImpl \in ItemImpls
    /\ pPc = "await_images"
    /\ pImages[pId] = "done"
    /\ IF pImpl = "integrated"
         THEN /\ pPc' = "next"
              /\ pResult' = [pResult EXCEPT ![pId] = "processed"]
         ELSE /\ pPc' = "persist"
              /\ UNCHANGED pResult
    /\ UNCHANGED <<pImpl, pHasImages, pId, pImages, pShutdown, pLate, pSignalled>>
    /\ ItemUnchanged

\* `for current_id in range(start_id, end_id + 1)`: the step to the next id
ItemStep ==
    /\ pImpl \in ItemImpls
    /\ pPc = "next"
    /\ IF pId < MaxItemIds
         THEN /\ pId' = pId + 1
              /\ pPc' = "fetch"
         ELSE /\ pPc' = "done"
              /\ UNCHANGED pId
    /\ UNCHANGED <<pImpl, pHasImages, pImages, pResult, pShutdown, pLate, pSignalled>>
    /\ ItemUnchanged

\* the orchestrator is inside the processing of the id it is at
ItemInProgress == pPc \in {"persist", "await_images"}

\* SIGINT or SIGTERM. enhanced_scraper.py: signal_handler sets the shutdown
\* event and returns. integrated_scraper.py and direct_id_with_images.py
\* install no handler and have no flag: the interrupt is raised at the
\* await the loop is suspended on, leaves process_single_item /
\* _process_item (whose `except Exception` does not catch it) and the loop
ItemSignal ==
    /\ pImpl \in ItemImpls
    /\ pShutdown = "none"
    /\ pPc \notin {"done", "interrupted"}
    /\ pSignalled' = [id |-> pId, pc |-> pPc]
    /\ IF pImpl = "enhanced"
         THEN /\ pShutdown' = "flag"
              /\ UNCHANGED <<pPc, pResult>>
         ELSE /\ pShutdown' = "interrupt"
              /\ pPc' = "interrupted"
              /\ pResult' = IF ItemInProgress
                              THEN [pResult EXCEPT ![pId] = "terminated"]
                              ELSE pResult
    /\ UNCHANGED <<pImpl, pHasImages, pId, pImages, pLate>>
    /\ ItemUnchanged

\* `if self.shutdown_event.is_set(): break` at the top of the loop of
\* scrape_block_range
ItemBreak ==
    /\ pImpl = "enhanced"
    /\ pPc = "fetch"
    /\ pShutdown = "flag"
    /\ pPc' = "done"
    /\ UNCHANGED <<pImpl, pHasImages, pId, pImages, pResult, pShutdown, pLate, pSignalled>>
    /\ ItemUnchanged

ItemNext ==
    \/ \E found \in BOOLEAN : ItemFetch(found)
    \/ ItemPersist
    \/ \E i \in ItemIds : ItemWorkerTakes(i)
    \/ \E i \in ItemIds : ItemImagesComplete(i)
    \/ ItemAwaitReturns
    \/ ItemStep
    \/ ItemSignal
    \/ ItemBreak

----------------------------------------------------------------------------
(* The image pool: ImageDownloader.download_images gathers one task per    *)
(* url, and each task runs its retry loop inside `async with               *)
(* self.semaphore`, a semaphore of max_concurrent_downloads permits.       *)

MaxPoolLimit == 2
MaxPoolTasks == 4
MaxPoolCalls == 2
PoolMaxRetries == 3

PoolTasks == 1..MaxPoolTasks

PoolUnchanged == UNCHANGED <<storeVars, limVars, discVars, imgVars, orchVars, fetchVars, runVars, mdsVars, itemVars, txVars, normVars, probeVars, statVars, blkVars, flagVars, dbVars>>

\* the downloads that hold the semaphore
PoolInFlight == {t \in PoolTasks : kTasks[t] = "running"}

\* download_images(image_urls, ...): one task per url, gathered
DownloadImages(n) ==
    /\ kLimit > 0
    /\ kCalls < MaxPoolCalls
    /\ \A t \in PoolTasks : kTasks[t] = "none"
    /\ kTasks' = [t \in PoolTasks |-> IF t <= n THEN "waiting" ELSE "none"]
    /\ kAttempt' = [t \in PoolTasks |-> 0]
    /\ kCalls' = kCalls + 1
    /\ kSubmitted' = n
    /\ UNCHANGED <<kLimit, kPermits>>
    /\ PoolUnchanged

\* a task enters `async with self.semaphore` without waiting for a permit
SemaphoreAcquireUnbounded(t) ==
    /\ kLimit > 0
    /\ kTasks[t] = "waiting"
    /\ kTasks' = [kTasks EXCEPT ![t] = "running"]
    /\ kPermits' = IF kPermits > 0 THEN kPermits - 1 ELSE 0
    /\ UNCHANGED <<kLimit, kAttempt, kCalls, kSubmitted>>
    /\ PoolUnchanged

\* a task enters `async with self.semaphore`: it takes a permit when there
\* is one
SemaphoreAcquire(t) ==
    /\ kLimit > 0
    /\ kTasks[t] = "waiting"
    /\ kPermits > 0
    /\ kTasks' = [kTasks EXCEPT ![t] = "running"]
    /\ kPermits' = kPermits - 1
    /\ UNCHANGED <<kLimit, kAttempt, kCalls, kSubmitted>>
    /\ PoolUnchanged

\* one attempt of the retry loop of _download_single_image: the image is
\* saved, or the attempt fails and the loop retries (the permit is kept
\* during the backoff) until attempt max_retries, after which the task
\* returns None; the permit is given back when the task leaves the block
DownloadAttempt(t, ok) ==
    /\ kLimit > 0
    /\ kTasks[t] = "running"
    /\ IF ok
         THEN /\ kTasks' = [kTasks EXCEPT ![t] = "done"]
              /\ kPermits' = kPermits + 1
              /\ UNCHANGED kAttempt
         ELSE IF kAttempt[t] < PoolMaxRetries
                THEN /\ kAttempt' = [kAttempt EXCEPT ![t] = @ + 1]
                     /\ UNCHANGED <<kTasks, kPermits>>
                ELSE /\ kTasks' = [kTasks EXCEPT ![t] = "failed"]
                     /\ kPermits' = kPermits + 1
                     /\ UNCHANGED kAttempt
    /\ UNCHANGED <<kLimit, kCalls, kSubmitted>>
    /\ PoolUnchanged

\* asyncio.gather returns when every task has returned
DownloadImagesReturns ==
    /\ kLimit > 0
    /\ kSubmitted > 0
    /\ \A t \in PoolTasks : kTasks[t] \in {"none", "done", "failed"}
    /\ kTasks' = [t \in PoolTasks |-> "none"]
    /\ kAttempt' = [t \in PoolTasks |-> 0]
    /\ kSubmitted' = 0
    /\ UNCHANGED <<kLimit, kPermits, kCalls>>
    /\ PoolUnchanged

PoolNext ==
    \/ \E n \in PoolTasks : DownloadImages(n)
    \/ \E t \in PoolTasks : SemaphoreAcquire(t)
    \/ \E t \in PoolTasks, ok \in BOOLEAN : DownloadAttempt(t, ok)
    \/ DownloadImagesReturns

----------------------------------------------------------------------------
(* Two upserts of one id that run concurrently, and the read queries of    *)
(* DatabaseManager beside them. An upsert is one transaction: it takes     *)
(* the write lock, reads the row, writes the fields, then the hash and     *)
(* the timestamps, and commits. A read query is one SELECT and sees        *)
(* committed rows.                                                         *)

MaxTxReads == 2

TxId == 1

Writers == {1, 2}

TxRecs == [title : Titles, subjects : {<<1, 2>>, <<2, 1>>}, names : {<<1, 2>>}]

\* the table holds no row of the id, or the row of an earlier upsert
TxInitRows == {{}} \cup {{NewRow(rec, 1)} : rec \in TxRecs}

TxIdle == [pc |-> "idle", rec |-> NoRecord, now |-> 0, seen |-> {},
           work |-> {}, overlapped |-> FALSE]

TxUnchanged == UNCHANGED <<storeVars, limVars, discVars, imgVars, orchVars, fetchVars, runVars, mdsVars, itemVars, poolVars, normVars, probeVars, statVars, blkVars, flagVars, dbVars>>

\* the rows of the id as a store of UpsertRow
StoreOf(rows) ==
    IF rows = {} THEN <<>>
    ELSE [i \in {TxId} |-> CHOOSE r \in rows : TRUE]

\* a transaction begins whatever other transaction is open
CanBeginWithoutLock(w) == tW[w].pc = "waiting"

\* a transaction begins when no other transaction holds the write lock
CanBegin(w) == tW[w].pc = "waiting" /\ tLock = 0

\* a read would see the uncommitted rows of the open transaction
VisibleRowsDirty ==
    IF tLock # 0 /\ tW[tLock].pc \in {"fields", "written"}
      THEN tW[tLock].work ELSE tRows

\* a read sees the committed rows
VisibleRows == tRows

\* upsert(record) is called for the id
TxRequest(w, rec) ==
    /\ tW # <<>>
    /\ tW[w].pc = "idle"
    /\ tW' = [tW EXCEPT ![w] = [TxIdle EXCEPT !.pc = "waiting", !.rec = rec,
                                   !.overlapped = (tLock # 0)]]
    /\ UNCHANGED <<tInit, tRows, tClock, tLock, tOrder, tObs, tVersions>>
    /\ TxUnchanged

\* the transaction begins and reads the rows of the id
TxBegin(w) ==
    /\ tW # <<>>
    /\ CanBegin(w)
    /\ tLock' = w
    /\ tClock' = tClock + 1
    /\ tW' = [tW EXCEPT ![w].pc = "begun", ![w].now = tClock + 1,
                        ![w].seen = tRows, ![w].work = tRows]
    /\ UNCHANGED <<tInit, tRows, tOrder, tObs, tVersions>>
    /\ TxUnchanged

\* the fields are written: a new row is inserted whole, the fields of a row
\* whose hash differs are overwritten, an unchanged row is left
TxWriteFields(w) ==
    /\ tW # <<>>
    /\ tW[w].pc = "begun"
    /\ LET st == StoreOf(tW[w].seen)
           rec == tW[w].rec
           row == IF TxId \notin DOMAIN st THEN NewRow(rec, tW[w].now)
                  ELSE IF st[TxId].content_hash # ContentHash(rec)
                         THEN [st[TxId] EXCEPT !.title = rec.title,
                                               !.subjects = rec.subjects,
                                               !.names = rec.names]
                  ELSE st[TxId]
       IN tW' = [tW EXCEPT ![w].pc = "fields", ![w].work = {row}]
    /\ UNCHANGED <<tInit, tRows, tClock, tLock, tOrder, tObs, tVersions>>
    /\ TxUnchanged

\* the hash and the timestamps are written
TxWriteHash(w) ==
    /\ tW # <<>>
    /\ tW[w].pc = "fields"
    /\ tW' = [tW EXCEPT ![w].pc = "written",
                        ![w].work = {UpsertRow(StoreOf(tW[w].seen), TxId,
                                               tW[w].rec, tW[w].now)}]
    /\ UNCHANGED <<tInit, tRows, tClock, tLock, tOrder, tObs, tVersions>>
    /\ TxUnchanged

\* commit: the rows the transaction read are replaced by the row it wrote
TxCommit(w) ==
    /\ tW # <<>>
    /\ tW[w].pc = "written"
    /\ tRows' = (tRows \ tW[w].seen) \cup tW[w].work
    /\ tVersions' = tVersions \cup {tRows'}
    /\ tLock' = IF tLock = w THEN 0 ELSE tLock
    /\ tOrder' = Append(tOrder, w)
    /\ tW' = [tW EXCEPT ![w].pc = "done"]
    /\ UNCHANGED <<tInit, tClock, tObs>>
    /\ TxUnchanged

\* a writer is between its first write and its commit
TxOpen == \E w \in Writers : tW[w].pc \in {"fields", "written"}

\* get_records, search_records, get_record_by_id, get_total_records: one
\* query, answered from the rows a read sees
ReadQuery(kind) ==
    /\ tW # <<>>
    /\ Len(tObs) < MaxTxReads
    /\ tObs' = Append(tObs, [kind |-> kind,
                             rows |-> IF kind = "countAll" THEN {}
                                      ELSE VisibleRows,
                             count |-> Cardinality(VisibleRows),
                             during |-> TxOpen,
                             committed |-> tVersions])
    /\ UNCHANGED <<tInit, tRows, tClock, tLock, tW, tOrder, tVersions>>
    /\ TxUnchanged

TxNext ==
    \/ \E w \in Writers, rec \in TxRecs : TxRequest(w, rec)
    \/ \E w \in Writers : TxBegin(w)
    \/ \E w \in Writers : TxWriteFields(w)
    \/ \E w \in Writers : TxWriteHash(w)
    \/ \E w \in Writers : TxCommit(w)
    \/ \E kind \in {"list", "search", "getById", "countAll"} : ReadQuery(kind)

----------------------------------------------------------------------------
(* The metadata extractors as normalisation of one payload:                *)
(* MetadataExtractor.extract_metadata (metadata_extractor.py) and          *)
(* MetadataExtractor.extract_item_metadata (metadata_extractor_enhanced.py)*)
(* called with the payload alone. A field of the payload is a pair of its  *)
(* JSON type t and, for a list, its elements v. The elements 1 and 2 are   *)
(* urls (strings, not of the IIIF service), the element 0 is a value that  *)
(* is not a string (a number).                                             *)

MaxUrlLen == 3
MaxSubjectLen == 2

Field(t, v) == [t |-> t, v |-> v]

Absent == Field("absent", <<>>)
Null == Field("null", <<>>)
Str == Field("str", <<>>)

ListsOver(S, n) == UNION {[1..k -> S] : k \in 0..n}

UrlLists == {Field("list", s) : s \in ListsOver({0, 1, 2}, MaxUrlLen)}

SubjectValues == {Field("list", s) : s \in ListsOver({1, 2}, MaxSubjectLen)}

\* the payloads: a JSON object with its fields missing, null, well or
\* wrongly typed
Payloads ==
    [shape : {"dict"},
     id : {"item", "plain", "null"},
     title : {Absent, Null, Str},
     subject : {Absent, Null} \cup SubjectValues,
     image_url : {Absent, Null, Str} \cup UrlLists,
     resources : {Absent, Null, Field("list", <<>>)}]

NoPayload == [shape |-> "none", id |-> "null", title |-> Absent,
              subject |-> Absent, image_url |-> Absent, resources |-> Absent]

NoRecordOut == [title |-> Absent, subjects |-> Absent, image_urls |-> Absent]

NoExtraction == [status |-> "none", exc |-> "none", rec |-> NoRecordOut]

ExtractRaised(exc) == [status |-> "raised", exc |-> exc, rec |-> NoRecordOut]

ReturnedNone == [status |-> "returned_none", exc |-> "none", rec |-> NoRecordOut]

NormUnchanged == UNCHANGED <<storeVars, limVars, discVars, imgVars, orchVars, fetchVars, runVars, mdsVars, itemVars, poolVars, txVars, probeVars, statVars, blkVars, flagVars, dbVars>>

\* `seen = set(); unique_urls = []; for url in image_urls: if url not in
\* seen: ...`: the first occurrences, in their order
RECURSIVE Dedupe(_)
Dedupe(s) ==
    IF s = <<>> THEN <<>>
    ELSE LET r == Dedupe(SubSeq(s, 1, Len(s) - 1))
             x == s[Len(s)]
         IN IF \E k \in 1..Len(r) : r[k] = x THEN r ELSE Append(r, x)

\* item.get(key, default): the value of a present key, also when it is
\* null, and the default ('' or []) for a missing key
GetWithDefault(f) == IF f.t = "absent" THEN Field("default", <<>>) ELSE f

\* _extract_image_urls of metadata_extractor.py; "TypeError" where it
\* raises
BasicImageUrls(item) ==
    LET urls == item.image_url
        firstNotStr == urls.t = "list" /\ urls.v # <<>> /\ urls.v[1] = 0
        fromField == IF urls.t = "str" THEN <<1>>
                     ELSE IF urls.t = "list" THEN urls.v
                     ELSE <<>>
    IN IF firstNotStr THEN Field("TypeError", <<>>)
       ELSE IF item.resources.t = "null" THEN Field("TypeError", <<>>)
       ELSE Field("list", Dedupe(fromField))

\* extract_metadata(item) of metadata_extractor.py: no try/except
BasicExtract(item) ==
    IF BasicImageUrls(item).t = "TypeError" THEN ExtractRaised("TypeError")
    ELSE [status |-> "record", exc |-> "none",
          rec |-> [title |-> GetWithDefault(item.title),
                   subjects |-> GetWithDefault(item.subject),
                   image_urls |-> BasicImageUrls(item)]]

\* _extract_image_urls of metadata_extractor_enhanced.py with item_details
\* and resources None
EnhancedImageUrls(item) ==
    LET urls == item.image_url
        fromField == IF urls.t = "list" THEN urls.v
                     ELSE IF urls.t = "str" THEN <<1>>
                     ELSE <<>>
    IN Field("list", Dedupe(fromField))

\* extract_item_metadata(item_data): every exception is caught and None is
\* returned, as it is for an id without '/item/'
EnhancedExtract(item) ==
    IF item.id # "item" THEN ReturnedNone
    ELSE [status |-> "record", exc |-> "none",
          rec |-> [title |-> item.title,
                   subjects |-> item.subject,
                   image_urls |-> EnhancedImageUrls(item)]]

ExtractMetadata ==
    /\ nPayload.shape # "none"
    /\ nImpl = "none"
    /\ nImpl' = "basic"
    /\ nResult' = BasicExtract(nPayload)
    /\ UNCHANGED nPayload
    /\ NormUnchanged

ExtractItemMetadata ==
    /\ nPayload.shape # "none"
    /\ nImpl = "none"
    /\ nImpl' = "enhanced"
    /\ nResult' = EnhancedExtract(nPayload)
    /\ UNCHANGED nPayload
    /\ NormUnchanged

NormNext ==
    \/ ExtractMetadata
    \/ ExtractItemMetadata

----------------------------------------------------------------------------
(* The image-service probing of one block: _discover_from_iiif_probing     *)
(* gathers one check_manuscript_endpoint task per manuscript id, and each  *)
(* task sends its HEAD requests, one url pattern after the other, inside   *)
(* `async with semaphore`.                                                 *)

\* bound: tasks of one gather (range(1, 21), then range(21, 57))
MaxProbeTasks == 4

\* `semaphore = asyncio.Semaphore(3)`
ProbeSemaphore == 3

\* the url patterns a task tries in order
UrlPatterns == 3

ProbeTasks == 1..MaxProbeTasks

\* answers to session.head: found, not found, another status, and a
\* timeout or transport error
HeadAnswers == {"200", "404", "other", "error"}

ProbeUnchanged == UNCHANGED <<storeVars, limVars, discVars, imgVars, orchVars, fetchVars, runVars, mdsVars, itemVars, poolVars, txVars, normVars, statVars, blkVars, flagVars, dbVars>>

\* the tasks with a HEAD request in flight
ProbesInFlight == {t \in ProbeTasks : qTasks[t] = "head"}

\* asyncio.gather(*tasks) of the standard range: every task is started
\* and waits for the semaphore
ProbeGather ==
    /\ qPhase = "start"
    /\ qPhase' = "standard"
    /\ qTasks' = [t \in ProbeTasks |-> "waiting"]
    /\ UNCHANGED <<qPermits, qPattern, qFound>>
    /\ ProbeUnchanged

\* a task enters `async with semaphore` without waiting for a permit
ProbeAcquireUnbounded(t) ==
    /\ qPhase \in {"standard", "extended"}
    /\ qTasks[t] = "waiting"
    /\ qTasks' = [qTasks EXCEPT ![t] = "head"]
    /\ qPattern' = [qPattern EXCEPT ![t] = 1]
    /\ qPermits' = IF qPermits > 0 THEN qPermits - 1 ELSE 0
    /\ UNCHANGED <<qPhase, qFound>>
    /\ ProbeUnchanged

\* a task enters `async with semaphore` when a permit is left and sends
\* the HEAD request of its first url pattern
ProbeAcquire(t) ==
    /\ qPhase \in {"standard", "extended"}
    /\ qTasks[t] = "waiting"
    /\ qPermits > 0
    /\ qTasks' = [qTasks EXCEPT ![t] = "head"]
    /\ qPattern' = [qPattern EXCEPT ![t] = 1]
    /\ qPermits' = qPermits - 1
    /\ UNCHANGED <<qPhase, qFound>>
    /\ ProbeUnchanged

\* the answer to the HEAD request of a task: 200 returns the manuscript
\* id, anything else goes on to the next url pattern, and after the last
\* pattern the task returns None; returning leaves the semaphore block
ProbeHead(t, answer) ==
    /\ qPhase \in {"standard", "extended"}
    /\ qTasks[t] = "head"
    /\ IF answer = "200"
         THEN /\ qTasks' = [qTasks EXCEPT ![t] = "done"]
              /\ qFound' = qFound \cup {<<qPhase, t>>}
              /\ qPermits' = qPermits + 1
              /\ UNCHANGED qPattern
         ELSE IF qPattern[t] < UrlPatterns
                THEN /\ qPattern' = [qPattern EXCEPT ![t] = @ + 1]
                     /\ UNCHANGED <<qTasks, qFound, qPermits>>
                ELSE /\ qTasks' = [qTasks EXCEPT ![t] = "done"]
                     /\ qPermits' = qPermits + 1
                     /\ UNCHANGED <<qPattern, qFound>>
    /\ UNCHANGED qPhase
    /\ ProbeUnchanged

\* gather returns when every task has returned: after the standard range
\* the extended range is gathered if a manuscript was found
ProbeGatherReturns ==
    /\ qPhase \in {"standard", "extended"}
    /\ \A t \in ProbeTasks : qTasks[t] = "done"
    /\ IF qPhase = "standard" /\ qFound # {}
         THEN /\ qPhase' = "extended"
              /\ qTasks' = [t \in ProbeTasks |-> "waiting"]
         ELSE /\ qPhase' = "done"
              /\ qTasks' = [t \in ProbeTasks |-> "none"]
    /\ qPattern' = [t \in ProbeTasks |-> 0]
    /\ UNCHANGED <<qPermits, qFound>>
    /\ ProbeUnchanged

\* asyncio.timeout(timeout) expires: the gather and its tasks are
\* cancelled, and a cancelled task leaves the semaphore block
ProbeTimeout ==
    /\ qPhase \in {"standard", "extended"}
    /\ qPhase' = "timeout"
    /\ qTasks' = [t \in ProbeTasks |-> "none"]
    /\ qPattern' = [t \in ProbeTasks |-> 0]
    /\ qPermits' = qPermits + Cardinality(ProbesInFlight)
    /\ UNCHANGED qFound
    /\ ProbeUnchanged

ProbeNext ==
    \/ ProbeGather
    \/ \E t \in ProbeTasks : ProbeAcquire(t)
    \/ \E t \in ProbeTasks, answer \in HeadAnswers : ProbeHead(t, answer)
    \/ ProbeGatherReturns
    \/ ProbeTimeout

----------------------------------------------------------------------------
(* The statistics dict shared by the two threads of the scraper: the       *)
(* fetch loop (queue_images_for_download) and the image download worker    *)
(* thread both run `self.stats[key] += 1`, a read of the item, an add and  *)
(* a write of the item, with no lock around them.                          *)

\* bound: increments started in a behaviour
MaxIncrements == 4

StatThreads == {"loop", "worker"}

\* the counters each thread increments: queue_images_for_download adds to
\* images_queued and, in its except branch, to image_errors; the worker
\* adds to images_downloaded and to image_errors
CountersOf(th) ==
    IF th = "loop" THEN {"images_queued", "image_errors"}
    ELSE {"images_downloaded", "image_errors"}

StatCounters == {"images_queued", "images_downloaded", "image_errors"}

NoRead == [key |-> "none", value |-> 0]

StatUnchanged == UNCHANGED <<storeVars, limVars, discVars, imgVars, orchVars, fetchVars, runVars, mdsVars, itemVars, poolVars, txVars, normVars, probeVars, blkVars, flagVars, dbVars>>

\* `self.stats[key] += 1`, first half: the thread reads the item
StatsLoad(th, key) ==
    /\ uStarted < MaxIncrements
    /\ uRead[th] = NoRead
    /\ key \in CountersOf(th)
    /\ uRead' = [uRead EXCEPT ![th] = [key |-> key, value |-> uStats[key]]]
    /\ uStarted' = uStarted + 1
    /\ UNCHANGED <<uStats, uOps>>
    /\ StatUnchanged

\* `self.stats[key] += 1`, second half: the thread writes the value it
\* read plus one
StatsStore(th) ==
    /\ uRead[th] # NoRead
    /\ uStats' = [uStats EXCEPT ![uRead[th].key] = uRead[th].value + 1]
    /\ uOps' = [uOps EXCEPT ![uRead[th].key] = @ + 1]
    /\ uRead' = [uRead EXCEPT ![th] = NoRead]
    /\ UNCHANGED uStarted
    /\ StatUnchanged

StatNext ==
    \/ \E th \in StatThreads, key \in StatCounters : StatsLoad(th, key)
    \/ \E th \in StatThreads : StatsStore(th)

----------------------------------------------------------------------------
(* Persisting one block: store_metadata_in_database awaits save_block (or  *)
(* update_block_metadata), then save_panel for every manuscript, each a    *)
(* call of its own on the database manager.                                *)

\* bound: manuscripts of the block
MaxPanels == 2

PanelIds == 1..MaxPanels

\* the rows of a block in the database: the block row ("none", the row of
\* an earlier run, or the row of this run) and its panel rows
BlockStores ==
    {[block |-> "none", panels |-> {}]} \cup
    {[block |-> "old", panels |-> ps] : ps \in SUBSET PanelIds}

BlkUnchanged == UNCHANGED <<storeVars, limVars, discVars, imgVars, orchVars, fetchVars, runVars, mdsVars, itemVars, poolVars, txVars, normVars, probeVars, statVars, flagVars, dbVars>>

\* save_block(block), and update_block_metadata when it returns False: the
\* block row is written and the panels follow; or neither writes a row
\* (both return False, or one raises), database_errors is counted and
\* store_metadata_in_database returns False
SaveBlock(ok) ==
    /\ bPc = "block"
    /\ IF ok
         THEN /\ bStore' = [bStore EXCEPT !.block = "new"]
              /\ bPc' = "panels"
              /\ UNCHANGED <<bErrors, bResult>>
         ELSE /\ bErrors' = bErrors + 1
              /\ bResult' = "false"
              /\ bPc' = "done"
              /\ UNCHANGED bStore
    /\ UNCHANGED <<bBefore, bTodo>>
    /\ BlkUnchanged

\* save_panel(panel) for one manuscript of the loop: the panel row is
\* written, or the call raises, the exception is caught inside the loop,
\* database_errors is counted and the loop goes on
SavePanel(m, ok) ==
    /\ bPc = "panels"
    /\ m \in bTodo
    /\ bTodo' = bTodo \ {m}
    /\ IF ok
         THEN /\ bStore' = [bStore EXCEPT !.panels = @ \cup {m}]
              /\ UNCHANGED bErrors
         ELSE /\ bErrors' = bErrors + 1
              /\ UNCHANGED bStore
    /\ UNCHANGED <<bPc, bBefore, bResult>>
    /\ BlkUnchanged

\* after the loop store_metadata_in_database returns True
StoreMetadataReturns ==
    /\ bPc = "panels"
    /\ bTodo = {}
    /\ bPc' = "done"
    /\ bResult' = "true"
    /\ UNCHANGED <<bStore, bBefore, bTodo, bErrors>>
    /\ BlkUnchanged

BlkNext ==
    \/ \E ok \in BOOLEAN : SaveBlock(ok)
    \/ \E m \in PanelIds, ok \in BOOLEAN : SavePanel(m, ok)
    \/ StoreMetadataReturns

----------------------------------------------------------------------------
(* The images_downloaded flag: _download_missing_images lists the records  *)
(* without downloaded images and calls mark_images_downloaded for each.    *)

\* bound: records in the database
MaxFlagIds == 3

FlagIds == 1..MaxFlagIds

FlagUnchanged == UNCHANGED <<storeVars, limVars, discVars, imgVars, orchVars, fetchVars, runVars, mdsVars, itemVars, poolVars, txVars, normVars, probeVars, statVars, blkVars, dbVars>>

\* `items_without_images = await self.db_manager.get_records_without_images()`
GetRecordsWithoutImages ==
    /\ gPc = "start"
    /\ gTodo' = {id \in FlagIds : ~gFlag[id]}
    /\ gPc' = "marking"
    /\ UNCHANGED <<gFlag, gFiles, gTasks, gMarked, gErrors>>
    /\ FlagUnchanged

\* one item of the loop: `mark_images_downloaded(item_id, [])` with an
\* empty list of paths and no download before it; the flag of the record
\* is set and images_downloaded is counted, or the call raises and an
\* error is counted
MarkImagesDownloaded(id, ok) ==
    /\ gPc = "marking"
    /\ id \in gTodo
    /\ gTodo' = gTodo \ {id}
    /\ IF ok
         THEN /\ gFlag' = [gFlag EXCEPT ![id] = TRUE]
              /\ gMarked' = gMarked + 1
              /\ UNCHANGED gErrors
         ELSE /\ gErrors' = gErrors + 1
              /\ UNCHANGED <<gFlag, gMarked>>
    /\ UNCHANGED <<gPc, gFiles, gTasks>>
    /\ FlagUnchanged

\* the loop is over
DownloadMissingImagesReturns ==
    /\ gPc = "marking"
    /\ gTodo = {}
    /\ gPc' = "done"
    /\ UNCHANGED <<gFlag, gFiles, gTasks, gTodo, gMarked, gErrors>>
    /\ FlagUnchanged

FlagNext ==
    \/ GetRecordsWithoutImages
    \/ \E id \in FlagIds, ok \in BOOLEAN : MarkImagesDownloaded(id, ok)
    \/ DownloadMissingImagesReturns

----------------------------------------------------------------------------
(* DatabaseManager as the API server reads it: initialize() caches the     *)
(* primary data source, get_total_records counts the cached table and      *)
(* get_records chooses its table again at every call.                      *)

\* bound: rows of a table
MaxRows == 2

\* bound: page sizes of get_records
MaxLimit == 2

Tables == {"collection_items", "quilt_blocks", "quilt_panels"}

\* the block ids panel rows belong to
PanelBlocks == 1..2

\* rows of quilt_panels held for block b
PanelRowsOf(rows, b) == Cardinality({r \in rows : r[1] = b})

\* SELECT COUNT(*) of a table
CountRows(table) ==
    IF table = "collection_items" THEN hItems
    ELSE IF table = "quilt_blocks" THEN hBlocks
    ELSE Cardinality(hPanels)

\* _determine_primary_data_source: the first table that holds rows
DeterminePrimaryDataSource ==
    IF CountRows("collection_items") > 0 THEN "collection_items"
    ELSE IF CountRows("quilt_blocks") > 0 THEN "quilt_blocks"
    ELSE IF CountRows("quilt_panels") > 0 THEN "quilt_panels"
    ELSE "none"

\* the table get_records reads: chosen from the counts at the call
PrimaryTable ==
    IF CountRows("collection_items") > 0 THEN "collection_items"
    ELSE IF CountRows("quilt_blocks") >= CountRows("quilt_panels") THEN "quilt_blocks"
    ELSE "quilt_panels"

\* get_records(limit, offset): the number of rows of the page
GetRecords(limit, offset) ==
    LET n == CountRows(PrimaryTable)
    IN IF offset >= n THEN 0
       ELSE IF n - offset < limit THEN n - offset ELSE limit

\* the records reached by paging with get_records from offset on, until a
\* page comes back empty
RECURSIVE PageThrough(_, _)
PageThrough(limit, offset) ==
    IF GetRecords(limit, offset) = 0 THEN 0
    ELSE GetRecords(limit, offset) + PageThrough(limit, offset + limit)

\* get_total_records: the count of the cached primary data source, which
\* is determined again only while the cache is empty (None); "none" is a
\* cached value like any other
GetTotalRecords ==
    LET source == IF hPrimary = "unset" THEN DeterminePrimaryDataSource ELSE hPrimary
    IN IF source = "collection_items" THEN hItems
       ELSE IF source = "quilt_blocks" THEN hBlocks
       ELSE IF source = "quilt_panels"
            THEN Cardinality({r[1] : r \in hPanels})
       ELSE 0

DbUnchanged == UNCHANGED <<storeVars, limVars, discVars, imgVars, orchVars, fetchVars, runVars, mdsVars, itemVars, poolVars, txVars, normVars, probeVars, statVars, blkVars, flagVars>>

\* initialize(): connect, create the tables, cache the primary data source
Initialize ==
    /\ hPc = "new"
    /\ hPc' = "ready"
    /\ hPrimary' = DeterminePrimaryDataSource
    /\ UNCHANGED <<hItems, hBlocks, hPanels, hTotal, hPaged, hReads>>
    /\ DbUnchanged

\* a scraper inserts a row into one of the tables
InsertRow(table, b) ==
    /\ hPc = "ready"
    /\ IF table = "collection_items"
         THEN /\ hItems < MaxRows
              /\ hItems' = hItems + 1
              /\ UNCHANGED <<hBlocks, hPanels>>
         ELSE IF table = "quilt_blocks"
         THEN /\ hBlocks < MaxRows
              /\ hBlocks' = hBlocks + 1
              /\ UNCHANGED <<hItems, hPanels>>
         ELSE /\ PanelRowsOf(hPanels, b) < MaxRows
              /\ hPanels' = hPanels \cup {<<b, PanelRowsOf(hPanels, b) + 1>>}
              /\ UNCHANGED <<hItems, hBlocks>>
    /\ UNCHANGED <<hPc, hPrimary, hTotal, hPaged, hReads>>
    /\ DbUnchanged

\* a client pages through get_records with page size limit and asks
\* get_total_records, with no insertion in between
ReadRecords(limit) ==
    /\ hPc = "ready"
    /\ hPaged' = PageThrough(limit, 0)
    /\ hTotal' = GetTotalRecords
    /\ hPrimary' = IF hPrimary = "unset" THEN DeterminePrimaryDataSource ELSE hPrimary
    /\ hReads' = IF hReads < 2 THEN hReads + 1 ELSE hReads
    /\ UNCHANGED <<hPc, hItems, hBlocks, hPanels>>
    /\ DbUnchanged

DbNext ==
    \/ Initialize
    \/ \E table \in Tables, b \in PanelBlocks : InsertRow(table, b)
    \/ \E limit \in 1..MaxLimit : ReadRecords(limit)

----------------------------------------------------------------------------
(* Specifications                                                          *)

\* the store, driven by process_item_metadata
Init ==
    /\ store = <<>>
    /\ clock = 0
    /\ log = <<>>
    /\ api_delay = 1
    /\ last_api_call = 0
    /\ time = StartTime
    /\ calls = <<>>
    /\ dPc = "idle"
    /\ dFn = "none"
    /\ dK = 0
    /\ dErr = {}
    /\ dNum = 0
    /\ dAvail = {}
    /\ dTimedOut = FALSE
    /\ iImpl = "none"
    /\ iPc = "idle"
    /\ iAttempt = 0
    /\ iFile = "absent"
    /\ iFile0 = "absent"
    /\ iNet = 0
    /\ iResult = "none"
    /\ iRuns = 0
    /\ operation_mode = "full"
    /\ shutdown_event = FALSE
    /\ image_queue = <<>>
    /\ stats = ZeroStats
    /\ oPc = "idle"
    /\ block_num = 0
    /\ oCur = NoBlock
    /\ oFailed = {}
    /\ wPc = "none"
    /\ wTask = Sentinel
    /\ wLast = NoDownload
    /\ fPc = "idle"
    /\ fFn = "none"
    /\ fPage = 0
    /\ fReqs = <<>>
    /\ fSleeps = <<>>
    /\ fResult = NoResult
    /\ fCalls = 0
    /\ rImpl = "none"
    /\ rRemote = <<>>
    /\ rStoreErr = {}
    /\ rPc = "idle"
    /\ rRuns = 0
    /\ rId = 0
    /\ rStats = ZeroRunStats
    /\ rLast = NoItem
    /\ rFailures = {}
    /\ rFirst = <<>>
    /\ mRemote = <<>>
    /\ discovery_cache = <<>>
    /\ mTask = <<>>
    /\ mOps = 0
    /\ mLast = NoDiscovery
    /\ mReturned = <<>>
    /\ pImpl = "none"
    /\ pHasImages = <<>>
    /\ pId = 0
    /\ pPc = "idle"
    /\ pImages = <<>>
    /\ pResult = <<>>
    /\ pShutdown = "none"
    /\ pLate = {}
    /\ pSignalled = NotSignalled
    /\ kLimit = 0
    /\ kPermits = 0
    /\ kTasks = <<>>
    /\ kAttempt = <<>>
    /\ kCalls = 0
    /\ kSubmitted = 0
    /\ tInit = {}
    /\ tRows = {}
    /\ tClock = 0
    /\ tLock = 0
    /\ tW = <<>>
    /\ tOrder = <<>>
    /\ tObs = <<>>
    /\ tVersions = {}
    /\ nPayload = NoPayload
    /\ nImpl = "none"
    /\ nResult = NoExtraction
    /\ qPhase = "idle"
    /\ qTasks = <<>>
    /\ qPattern = <<>>
    /\ qPermits = 0
    /\ qFound = {}
    /\ uStats = <<>>
    /\ uRead = <<>>
    /\ uOps = <<>>
    /\ uStarted = 0
    /\ bStore = <<>>
    /\ bBefore = <<>>
    /\ bTodo = {}
    /\ bPc = "idle"
    /\ bErrors = 0
    /\ bResult = "none"
    /\ gFlag = <<>>
    /\ gFiles = <<>>
    /\ gTasks = <<>>
    /\ gTodo = {}
    /\ gPc = "idle"
    /\ gMarked = 0
    /\ gErrors = 0
    /\ hItems = 0
    /\ hBlocks = 0
    /\ hPanels = {}
    /\ hPrimary = "unset"
    /\ hPc = "idle"
    /\ hTotal = 0
    /\ hPaged = 0
    /\ hReads = 0

Next == StoreNext

Spec == Init /\ [][Next]_vars

\* the rate limiter, constructed with any configured delay
InitLimiter ==
    /\ store = <<>>
    /\ clock = 0
    /\ log = <<>>
    /\ api_delay \in ConfiguredDelays
    /\ last_api_call = 0
    /\ time = StartTime
    /\ calls = <<>>
    /\ dPc = "idle"
    /\ dFn = "none"
    /\ dK = 0
    /\ dErr = {}
    /\ dNum = 0
    /\ dAvail = {}
    /\ dTimedOut = FALSE
    /\ iImpl = "none"
    /\ iPc = "idle"
    /\ iAttempt = 0
    /\ iFile = "absent"
    /\ iFile0 = "absent"
    /\ iNet = 0
    /\ iResult = "none"
    /\ iRuns = 0
    /\ operation_mode = "full"
    /\ shutdown_event = FALSE
    /\ image_queue = <<>>
    /\ stats = ZeroStats
    /\ oPc = "idle"
    /\ block_num = 0
    /\ oCur = NoBlock
    /\ oFailed = {}
    /\ wPc = "none"
    /\ wTask = Sentinel
    /\ wLast = NoDownload
    /\ fPc = "idle"
    /\ fFn = "none"
    /\ fPage = 0
    /\ fReqs = <<>>
    /\ fSleeps = <<>>
    /\ fResult = NoResult
    /\ fCalls = 0
    /\ rImpl = "none"
    /\ rRemote = <<>>
    /\ rStoreErr = {}
    /\ rPc = "idle"
    /\ rRuns = 0
    /\ rId = 0
    /\ rStats = ZeroRunStats
    /\ rLast = NoItem
    /\ rFailures = {}
    /\ rFirst = <<>>
    /\ mRemote = <<>>
    /\ discovery_cache = <<>>
    /\ mTask = <<>>
    /\ mOps = 0
    /\ mLast = NoDiscovery
    /\ mReturned = <<>>
    /\ pImpl = "none"
    /\ pHasImages = <<>>
    /\ pId = 0
    /\ pPc = "idle"
    /\ pImages = <<>>
    /\ pResult = <<>>
    /\ pShutdown = "none"
    /\ pLate = {}
    /\ pSignalled = NotSignalled
    /\ kLimit = 0
    /\ kPermits = 0
    /\ kTasks = <<>>
    /\ kAttempt = <<>>
    /\ kCalls = 0
    /\ kSubmitted = 0
    /\ tInit = {}
    /\ tRows = {}
    /\ tClock = 0
    /\ tLock = 0
    /\ tW = <<>>
    /\ tOrder = <<>>
    /\ tObs = <<>>
    /\ tVersions = {}
    /\ nPayload = NoPayload
    /\ nImpl = "none"
    /\ nResult = NoExtraction
    /\ qPhase = "idle"
    /\ qTasks = <<>>
    /\ qPattern = <<>>
    /\ qPermits = 0
    /\ qFound = {}
    /\ uStats = <<>>
    /\ uRead = <<>>
    /\ uOps = <<>>
    /\ uStarted = 0
    /\ bStore = <<>>
    /\ bBefore = <<>>
    /\ bTodo = {}
    /\ bPc = "idle"
    /\ bErrors = 0
    /\ bResult = "none"
    /\ gFlag = <<>>
    /\ gFiles = <<>>
    /\ gTasks = <<>>
    /\ gTodo = {}
    /\ gPc = "idle"
    /\ gMarked = 0
    /\ gErrors = 0
    /\ hItems = 0
    /\ hBlocks = 0
    /\ hPanels = {}
    /\ hPrimary = "unset"
    /\ hPc = "idle"
    /\ hTotal = 0
    /\ hPaged = 0
    /\ hReads = 0

SpecLimiter == InitLimiter /\ [][LimNext]_vars

\* discovery against any probe source
InitDiscovery ==
    /\ store = <<>>
    /\ clock = 0
    /\ log = <<>>
    /\ api_delay = 1
    /\ last_api_call = 0
    /\ time = StartTime
    /\ calls = <<>>
    /\ dPc = "idle"
    /\ dFn = "none"
    /\ dK \in 0..MaxPages
    /\ dErr \in {{}, {2}}
    /\ dNum = 0
    /\ dAvail = {}
    /\ dTimedOut = FALSE
    /\ iImpl = "none"
    /\ iPc = "idle"
    /\ iAttempt = 0
    /\ iFile = "absent"
    /\ iFile0 = "absent"
    /\ iNet = 0
    /\ iResult = "none"
    /\ iRuns = 0
    /\ operation_mode = "full"
    /\ shutdown_event = FALSE
    /\ image_queue = <<>>
    /\ stats = ZeroStats
    /\ oPc = "idle"
    /\ block_num = 0
    /\ oCur = NoBlock
    /\ oFailed = {}
    /\ wPc = "none"
    /\ wTask = Sentinel
    /\ wLast = NoDownload
    /\ fPc = "idle"
    /\ fFn = "none"
    /\ fPage = 0
    /\ fReqs = <<>>
    /\ fSleeps = <<>>
    /\ fResult = NoResult
    /\ fCalls = 0
    /\ rImpl = "none"
    /\ rRemote = <<>>
    /\ rStoreErr = {}
    /\ rPc = "idle"
    /\ rRuns = 0
    /\ rId = 0
    /\ rStats = ZeroRunStats
    /\ rLast = NoItem
    /\ rFailures = {}
    /\ rFirst = <<>>
    /\ mRemote = <<>>
    /\ discovery_cache = <<>>
    /\ mTask = <<>>
    /\ mOps = 0
    /\ mLast = NoDiscovery
    /\ mReturned = <<>>
    /\ pImpl = "none"
    /\ pHasImages = <<>>
    /\ pId = 0
    /\ pPc = "idle"
    /\ pImages = <<>>
    /\ pResult = <<>>
    /\ pShutdown = "none"
    /\ pLate = {}
    /\ pSignalled = NotSignalled
    /\ kLimit = 0
    /\ kPermits = 0
    /\ kTasks = <<>>
    /\ kAttempt = <<>>
    /\ kCalls = 0
    /\ kSubmitted = 0
    /\ tInit = {}
    /\ tRows = {}
    /\ tClock = 0
    /\ tLock = 0
    /\ tW = <<>>
    /\ tOrder = <<>>
    /\ tObs = <<>>
    /\ tVersions = {}
    /\ nPayload = NoPayload
    /\ nImpl = "none"
    /\ nResult = NoExtraction
    /\ qPhase = "idle"
    /\ qTasks = <<>>
    /\ qPattern = <<>>
    /\ qPermits = 0
    /\ qFound = {}
    /\ uStats = <<>>
    /\ uRead = <<>>
    /\ uOps = <<>>
    /\ uStarted = 0
    /\ bStore = <<>>
    /\ bBefore = <<>>
    /\ bTodo = {}
    /\ bPc = "idle"
    /\ bErrors = 0
    /\ bResult = "none"
    /\ gFlag = <<>>
    /\ gFiles = <<>>
    /\ gTasks = <<>>
    /\ gTodo = {}
    /\ gPc = "idle"
    /\ gMarked = 0
    /\ gErrors = 0
    /\ hItems = 0
    /\ hBlocks = 0
    /\ hPanels = {}
    /\ hPrimary = "unset"
    /\ hPc = "idle"
    /\ hTotal = 0
    /\ hPaged = 0
    /\ hReads = 0

SpecDiscovery == InitDiscovery /\ [][DiscNext]_vars

\* image tasks for one destination, which a former run may have written
InitImage ==
    /\ store = <<>>
    /\ clock = 0
    /\ log = <<>>
    /\ api_delay = 1
    /\ last_api_call = 0
    /\ time = StartTime
    /\ calls = <<>>
    /\ dPc = "idle"
    /\ dFn = "none"
    /\ dK = 0
    /\ dErr = {}
    /\ dNum = 0
    /\ dAvail = {}
    /\ dTimedOut = FALSE
    /\ iImpl = "none"
    /\ iPc = "idle"
    /\ iAttempt = 0
    /\ iFile \in {"absent", "valid"}
    /\ iFile0 = iFile
    /\ iNet = 0
    /\ iResult = "none"
    /\ iRuns = 0
    /\ operation_mode = "full"
    /\ shutdown_event = FALSE
    /\ image_queue = <<>>
    /\ stats = ZeroStats
    /\ oPc = "idle"
    /\ block_num = 0
    /\ oCur = NoBlock
    /\ oFailed = {}
    /\ wPc = "none"
    /\ wTask = Sentinel
    /\ wLast = NoDownload
    /\ fPc = "idle"
    /\ fFn = "none"
    /\ fPage = 0
    /\ fReqs = <<>>
    /\ fSleeps = <<>>
    /\ fResult = NoResult
    /\ fCalls = 0
    /\ rImpl = "none"
    /\ rRemote = <<>>
    /\ rStoreErr = {}
    /\ rPc = "idle"
    /\ rRuns = 0
    /\ rId = 0
    /\ rStats = ZeroRunStats
    /\ rLast = NoItem
    /\ rFailures = {}
    /\ rFirst = <<>>
    /\ mRemote = <<>>
    /\ discovery_cache = <<>>
    /\ mTask = <<>>
    /\ mOps = 0
    /\ mLast = NoDiscovery
    /\ mReturned = <<>>
    /\ pImpl = "none"
    /\ pHasImages = <<>>
    /\ pId = 0
    /\ pPc = "idle"
    /\ pImages = <<>>
    /\ pResult = <<>>
    /\ pShutdown = "none"
    /\ pLate = {}
    /\ pSignalled = NotSignalled
    /\ kLimit = 0
    /\ kPermits = 0
    /\ kTasks = <<>>
    /\ kAttempt = <<>>
    /\ kCalls = 0
    /\ kSubmitted = 0
    /\ tInit = {}
    /\ tRows = {}
    /\ tClock = 0
    /\ tLock = 0
    /\ tW = <<>>
    /\ tOrder = <<>>
    /\ tObs = <<>>
    /\ tVersions = {}
    /\ nPayload = NoPayload
    /\ nImpl = "none"
    /\ nResult = NoExtraction
    /\ qPhase = "idle"
    /\ qTasks = <<>>
    /\ qPattern = <<>>
    /\ qPermits = 0
    /\ qFound = {}
    /\ uStats = <<>>
    /\ uRead = <<>>
    /\ uOps = <<>>
    /\ uStarted = 0
    /\ bStore = <<>>
    /\ bBefore = <<>>
    /\ bTodo = {}
    /\ bPc = "idle"
    /\ bErrors = 0
    /\ bResult = "none"
    /\ gFlag = <<>>
    /\ gFiles = <<>>
    /\ gTasks = <<>>
    /\ gTodo = {}
    /\ gPc = "idle"
    /\ gMarked = 0
    /\ gErrors = 0
    /\ hItems = 0
    /\ hBlocks = 0
    /\ hPanels = {}
    /\ hPrimary = "unset"
    /\ hPc = "idle"
    /\ hTotal = 0
    /\ hPaged = 0
    /\ hReads = 0

SpecImage == InitImage /\ [][ImgNext]_vars

\* scrape_block_range over the blocks 1..MaxBlocks in any operation mode
InitOrch ==
    /\ store = <<>>
    /\ clock = 0
    /\ log = <<>>
    /\ api_delay = 1
    /\ last_api_call = 0
    /\ time = StartTime
    /\ calls = <<>>
    /\ dPc = "idle"
    /\ dFn = "none"
    /\ dK = 0
    /\ dErr = {}
    /\ dNum = 0
    /\ dAvail = {}
    /\ dTimedOut = FALSE
    /\ iImpl = "none"
    /\ iPc = "idle"
    /\ iAttempt = 0
    /\ iFile = "absent"
    /\ iFile0 = "absent"
    /\ iNet = 0
    /\ iResult = "none"
    /\ iRuns = 0
    /\ operation_mode \in OperationModes
    /\ shutdown_event = FALSE
    /\ image_queue = <<>>
    /\ stats = ZeroStats
    /\ oPc = "start"
    /\ block_num = 0
    /\ oCur = NoBlock
    /\ oFailed = {}
    /\ wPc = "none"
    /\ wTask = Sentinel
    /\ wLast = NoDownload
    /\ fPc = "idle"
    /\ fFn = "none"
    /\ fPage = 0
    /\ fReqs = <<>>
    /\ fSleeps = <<>>
    /\ fResult = NoResult
    /\ fCalls = 0
    /\ rImpl = "none"
    /\ rRemote = <<>>
    /\ rStoreErr = {}
    /\ rPc = "idle"
    /\ rRuns = 0
    /\ rId = 0
    /\ rStats = ZeroRunStats
    /\ rLast = NoItem
    /\ rFailures = {}
    /\ rFirst = <<>>
    /\ mRemote = <<>>
    /\ discovery_cache = <<>>
    /\ mTask = <<>>
    /\ mOps = 0
    /\ mLast = NoDiscovery
    /\ mReturned = <<>>
    /\ pImpl = "none"
    /\ pHasImages = <<>>
    /\ pId = 0
    /\ pPc = "idle"
    /\ pImages = <<>>
    /\ pResult = <<>>
    /\ pShutdown = "none"
    /\ pLate = {}
    /\ pSignalled = NotSignalled
    /\ kLimit = 0
    /\ kPermits = 0
    /\ kTasks = <<>>
    /\ kAttempt = <<>>
    /\ kCalls = 0
    /\ kSubmitted = 0
    /\ tInit = {}
    /\ tRows = {}
    /\ tClock = 0
    /\ tLock = 0
    /\ tW = <<>>
    /\ tOrder = <<>>
    /\ tObs = <<>>
    /\ tVersions = {}
    /\ nPayload = NoPayload
    /\ nImpl = "none"
    /\ nResult = NoExtraction
    /\ qPhase = "idle"
    /\ qTasks = <<>>
    /\ qPattern = <<>>
    /\ qPermits = 0
    /\ qFound = {}
    /\ uStats = <<>>
    /\ uRead = <<>>
    /\ uOps = <<>>
    /\ uStarted = 0
    /\ bStore = <<>>
    /\ bBefore = <<>>
    /\ bTodo = {}
    /\ bPc = "idle"
    /\ bErrors = 0
    /\ bResult = "none"
    /\ gFlag = <<>>
    /\ gFiles = <<>>
    /\ gTasks = <<>>
    /\ gTodo = {}
    /\ gPc = "idle"
    /\ gMarked = 0
    /\ gErrors = 0
    /\ hItems = 0
    /\ hBlocks = 0
    /\ hPanels = {}
    /\ hPrimary = "unset"
    /\ hPc = "idle"
    /\ hTotal = 0
    /\ hPaged = 0
    /\ hReads = 0

SpecOrch == InitOrch /\ [][OrchNext]_vars

\* the worker thread is scheduled as long as it can run
SpecOrchLive == InitOrch /\ [][OrchNext]_vars /\ WF_vars(WorkerNext)

\* calls of the LOC API client against any remote
InitFetch ==
    /\ store = <<>>
    /\ clock = 0
    /\ log = <<>>
    /\ api_delay = 1
    /\ last_api_call = 0
    /\ time = StartTime
    /\ calls = <<>>
    /\ dPc = "idle"
    /\ dFn = "none"
    /\ dK = 0
    /\ dErr = {}
    /\ dNum = 0
    /\ dAvail = {}
    /\ dTimedOut = FALSE
    /\ iImpl = "none"
    /\ iPc = "idle"
    /\ iAttempt = 0
    /\ iFile = "absent"
    /\ iFile0 = "absent"
    /\ iNet = 0
    /\ iResult = "none"
    /\ iRuns = 0
    /\ operation_mode = "full"
    /\ shutdown_event = FALSE
    /\ image_queue = <<>>
    /\ stats = ZeroStats
    /\ oPc = "idle"
    /\ block_num = 0
    /\ oCur = NoBlock
    /\ oFailed = {}
    /\ wPc = "none"
    /\ wTask = Sentinel
    /\ wLast = NoDownload
    /\ fPc = "idle"
    /\ fFn = "none"
    /\ fPage = 0
    /\ fReqs = <<>>
    /\ fSleeps = <<>>
    /\ fResult = NoResult
    /\ fCalls = 0
    /\ rImpl = "none"
    /\ rRemote = <<>>
    /\ rStoreErr = {}
    /\ rPc = "idle"
    /\ rRuns = 0
    /\ rId = 0
    /\ rStats = ZeroRunStats
    /\ rLast = NoItem
    /\ rFailures = {}
    /\ rFirst = <<>>
    /\ mRemote = <<>>
    /\ discovery_cache = <<>>
    /\ mTask = <<>>
    /\ mOps = 0
    /\ mLast = NoDiscovery
    /\ mReturned = <<>>
    /\ pImpl = "none"
    /\ pHasImages = <<>>
    /\ pId = 0
    /\ pPc = "idle"
    /\ pImages = <<>>
    /\ pResult = <<>>
    /\ pShutdown = "none"
    /\ pLate = {}
    /\ pSignalled = NotSignalled
    /\ kLimit = 0
    /\ kPermits = 0
    /\ kTasks = <<>>
    /\ kAttempt = <<>>
    /\ kCalls = 0
    /\ kSubmitted = 0
    /\ tInit = {}
    /\ tRows = {}
    /\ tClock = 0
    /\ tLock = 0
    /\ tW = <<>>
    /\ tOrder = <<>>
    /\ tObs = <<>>
    /\ tVersions = {}
    /\ nPayload = NoPayload
    /\ nImpl = "none"
    /\ nResult = NoExtraction
    /\ qPhase = "idle"
    /\ qTasks = <<>>
    /\ qPattern = <<>>
    /\ qPermits = 0
    /\ qFound = {}
    /\ uStats = <<>>
    /\ uRead = <<>>
    /\ uOps = <<>>
    /\ uStarted = 0
    /\ bStore = <<>>
    /\ bBefore = <<>>
    /\ bTodo = {}
    /\ bPc = "idle"
    /\ bErrors = 0
    /\ bResult = "none"
    /\ gFlag = <<>>
    /\ gFiles = <<>>
    /\ gTasks = <<>>
    /\ gTodo = {}
    /\ gPc = "idle"
    /\ gMarked = 0
    /\ gErrors = 0
    /\ hItems = 0
    /\ hBlocks = 0
    /\ hPanels = {}
    /\ hPrimary = "unset"
    /\ hPc = "idle"
    /\ hTotal = 0
    /\ hPaged = 0
    /\ hReads = 0

SpecFetch == InitFetch /\ [][FetchNext]_vars

\* a run over the ids 1..MaxIds against any remote data, from an empty
\* database
InitRun ==
    /\ store = <<>>
    /\ clock = 0
    /\ log = <<>>
    /\ api_delay = 1
    /\ last_api_call = 0
    /\ time = StartTime
    /\ calls = <<>>
    /\ dPc = "idle"
    /\ dFn = "none"
    /\ dK = 0
    /\ dErr = {}
    /\ dNum = 0
    /\ dAvail = {}
    /\ dTimedOut = FALSE
    /\ iImpl = "none"
    /\ iPc = "idle"
    /\ iAttempt = 0
    /\ iFile = "absent"
    /\ iFile0 = "absent"
    /\ iNet = 0
    /\ iResult = "none"
    /\ iRuns = 0
    /\ operation_mode = "full"
    /\ shutdown_event = FALSE
    /\ image_queue = <<>>
    /\ stats = ZeroStats
    /\ oPc = "idle"
    /\ block_num = 0
    /\ oCur = NoBlock
    /\ oFailed = {}
    /\ wPc = "none"
    /\ wTask = Sentinel
    /\ wLast = NoDownload
    /\ fPc = "idle"
    /\ fFn = "none"
    /\ fPage = 0
    /\ fReqs = <<>>
    /\ fSleeps = <<>>
    /\ fResult = NoResult
    /\ fCalls = 0
    /\ rImpl \in {"direct", "integrated"}
    /\ rRemote \in [1..MaxIds -> RemoteValues]
    /\ rStoreErr \in {{}, {2}}
    /\ rPc = "run"
    /\ rRuns = 1
    /\ rId = 1
    /\ rStats = ZeroRunStats
    /\ rLast = NoItem
    /\ rFailures = {}
    /\ rFirst = <<>>
    /\ mRemote = <<>>
    /\ discovery_cache = <<>>
    /\ mTask = <<>>
    /\ mOps = 0
    /\ mLast = NoDiscovery
    /\ mReturned = <<>>
    /\ pImpl = "none"
    /\ pHasImages = <<>>
    /\ pId = 0
    /\ pPc = "idle"
    /\ pImages = <<>>
    /\ pResult = <<>>
    /\ pShutdown = "none"
    /\ pLate = {}
    /\ pSignalled = NotSignalled
    /\ kLimit = 0
    /\ kPermits = 0
    /\ kTasks = <<>>
    /\ kAttempt = <<>>
    /\ kCalls = 0
    /\ kSubmitted = 0
    /\ tInit = {}
    /\ tRows = {}
    /\ tClock = 0
    /\ tLock = 0
    /\ tW = <<>>
    /\ tOrder = <<>>
    /\ tObs = <<>>
    /\ tVersions = {}
    /\ nPayload = NoPayload
    /\ nImpl = "none"
    /\ nResult = NoExtraction
    /\ qPhase = "idle"
    /\ qTasks = <<>>
    /\ qPattern = <<>>
    /\ qPermits = 0
    /\ qFound = {}
    /\ uStats = <<>>
    /\ uRead = <<>>
    /\ uOps = <<>>
    /\ uStarted = 0
    /\ bStore = <<>>
    /\ bBefore = <<>>
    /\ bTodo = {}
    /\ bPc = "idle"
    /\ bErrors = 0
    /\ bResult = "none"
    /\ gFlag = <<>>
    /\ gFiles = <<>>
    /\ gTasks = <<>>
    /\ gTodo = {}
    /\ gPc = "idle"
    /\ gMarked = 0
    /\ gErrors = 0
    /\ hItems = 0
    /\ hBlocks = 0
    /\ hPanels = {}
    /\ hPrimary = "unset"
    /\ hPc = "idle"
    /\ hTotal = 0
    /\ hPaged = 0
    /\ hReads = 0

SpecRun == InitRun /\ [][RunNext]_vars

\* the discovery service with an empty cache; each id has its metadata at
\* the remote, or none
InitMds ==
    /\ store = <<>>
    /\ clock = 0
    /\ log = <<>>
    /\ api_delay = 1
    /\ last_api_call = 0
    /\ time = StartTime
    /\ calls = <<>>
    /\ dPc = "idle"
    /\ dFn = "none"
    /\ dK = 0
    /\ dErr = {}
    /\ dNum = 0
    /\ dAvail = {}
    /\ dTimedOut = FALSE
    /\ iImpl = "none"
    /\ iPc = "idle"
    /\ iAttempt = 0
    /\ iFile = "absent"
    /\ iFile0 = "absent"
    /\ iNet = 0
    /\ iResult = "none"
    /\ iRuns = 0
    /\ operation_mode = "full"
    /\ shutdown_event = FALSE
    /\ image_queue = <<>>
    /\ stats = ZeroStats
    /\ oPc = "idle"
    /\ block_num = 0
    /\ oCur = NoBlock
    /\ oFailed = {}
    /\ wPc = "none"
    /\ wTask = Sentinel
    /\ wLast = NoDownload
    /\ fPc = "idle"
    /\ fFn = "none"
    /\ fPage = 0
    /\ fReqs = <<>>
    /\ fSleeps = <<>>
    /\ fResult = NoResult
    /\ fCalls = 0
    /\ rImpl = "none"
    /\ rRemote = <<>>
    /\ rStoreErr = {}
    /\ rPc = "idle"
    /\ rRuns = 0
    /\ rId = 0
    /\ rStats = ZeroRunStats
    /\ rLast = NoItem
    /\ rFailures = {}
    /\ rFirst = <<>>
    /\ mRemote \in [MdsIds -> Metadatas \cup {NoMetadata}]
    /\ discovery_cache = <<>>
    /\ mTask = [i \in MdsIds |-> "none"]
    /\ mOps = 0
    /\ mLast = NoDiscovery
    /\ mReturned = <<>>
    /\ pImpl = "none"
    /\ pHasImages = <<>>
    /\ pId = 0
    /\ pPc = "idle"
    /\ pImages = <<>>
    /\ pResult = <<>>
    /\ pShutdown = "none"
    /\ pLate = {}
    /\ pSignalled = NotSignalled
    /\ kLimit = 0
    /\ kPermits = 0
    /\ kTasks = <<>>
    /\ kAttempt = <<>>
    /\ kCalls = 0
    /\ kSubmitted = 0
    /\ tInit = {}
    /\ tRows = {}
    /\ tClock = 0
    /\ tLock = 0
    /\ tW = <<>>
    /\ tOrder = <<>>
    /\ tObs = <<>>
    /\ tVersions = {}
    /\ nPayload = NoPayload
    /\ nImpl = "none"
    /\ nResult = NoExtraction
    /\ qPhase = "idle"
    /\ qTasks = <<>>
    /\ qPattern = <<>>
    /\ qPermits = 0
    /\ qFound = {}
    /\ uStats = <<>>
    /\ uRead = <<>>
    /\ uOps = <<>>
    /\ uStarted = 0
    /\ bStore = <<>>
    /\ bBefore = <<>>
    /\ bTodo = {}
    /\ bPc = "idle"
    /\ bErrors = 0
    /\ bResult = "none"
    /\ gFlag = <<>>
    /\ gFiles = <<>>
    /\ gTasks = <<>>
    /\ gTodo = {}
    /\ gPc = "idle"
    /\ gMarked = 0
    /\ gErrors = 0
    /\ hItems = 0
    /\ hBlocks = 0
    /\ hPanels = {}
    /\ hPrimary = "unset"
    /\ hPc = "idle"
    /\ hTotal = 0
    /\ hPaged = 0
    /\ hReads = 0

SpecMds == InitMds /\ [][MdsNext]_vars

InitItem ==
    /\ store = <<>>
    /\ clock = 0
    /\ log = <<>>
    /\ api_delay = 1
    /\ last_api_call = 0
    /\ time = StartTime
    /\ calls = <<>>
    /\ dPc = "idle"
    /\ dFn = "none"
    /\ dK = 0
    /\ dErr = {}
    /\ dNum = 0
    /\ dAvail = {}
    /\ dTimedOut = FALSE
    /\ iImpl = "none"
    /\ iPc = "idle"
    /\ iAttempt = 0
    /\ iFile = "absent"
    /\ iFile0 = "absent"
    /\ iNet = 0
    /\ iResult = "none"
    /\ iRuns = 0
    /\ operation_mode = "full"
    /\ shutdown_event = FALSE
    /\ image_queue = <<>>
    /\ stats = ZeroStats
    /\ oPc = "idle"
    /\ block_num = 0
    /\ oCur = NoBlock
    /\ oFailed = {}
    /\ wPc = "none"
    /\ wTask = Sentinel
    /\ wLast = NoDownload
    /\ fPc = "idle"
    /\ fFn = "none"
    /\ fPage = 0
    /\ fReqs = <<>>
    /\ fSleeps = <<>>
    /\ fResult = NoResult
    /\ fCalls = 0
    /\ rImpl = "none"
    /\ rRemote = <<>>
    /\ rStoreErr = {}
    /\ rPc = "idle"
    /\ rRuns = 0
    /\ rId = 0
    /\ rStats = ZeroRunStats
    /\ rLast = NoItem
    /\ rFailures = {}
    /\ rFirst = <<>>
    /\ mRemote = <<>>
    /\ discovery_cache = <<>>
    /\ mTask = <<>>
    /\ mOps = 0
    /\ mLast = NoDiscovery
    /\ mReturned = <<>>
    /\ pImpl \in ItemImpls
    /\ pHasImages \in [ItemIds -> BOOLEAN]
    /\ pId = 1
    /\ pPc = "fetch"
    /\ pImages = [i \in ItemIds |-> "none"]
    /\ pResult = [i \in ItemIds |-> "none"]
    /\ pShutdown = "none"
    /\ pLate = {}
    /\ pSignalled = NotSignalled
    /\ kLimit = 0
    /\ kPermits = 0
    /\ kTasks = <<>>
    /\ kAttempt = <<>>
    /\ kCalls = 0
    /\ kSubmitted = 0
    /\ tInit = {}
    /\ tRows = {}
    /\ tClock = 0
    /\ tLock = 0
    /\ tW = <<>>
    /\ tOrder = <<>>
    /\ tObs = <<>>
    /\ tVersions = {}
    /\ nPayload = NoPayload
    /\ nImpl = "none"
    /\ nResult = NoExtraction
    /\ qPhase = "idle"
    /\ qTasks = <<>>
    /\ qPattern = <<>>
    /\ qPermits = 0
    /\ qFound = {}
    /\ uStats = <<>>
    /\ uRead = <<>>
    /\ uOps = <<>>
    /\ uStarted = 0
    /\ bStore = <<>>
    /\ bBefore = <<>>
    /\ bTodo = {}
    /\ bPc = "idle"
    /\ bErrors = 0
    /\ bResult = "none"
    /\ gFlag = <<>>
    /\ gFiles = <<>>
    /\ gTasks = <<>>
    /\ gTodo = {}
    /\ gPc = "idle"
    /\ gMarked = 0
    /\ gErrors = 0
    /\ hItems = 0
    /\ hBlocks = 0
    /\ hPanels = {}
    /\ hPrimary = "unset"
    /\ hPc = "idle"
    /\ hTotal = 0
    /\ hPaged = 0
    /\ hReads = 0

SpecItem == InitItem /\ [][ItemNext]_vars

InitPool ==
    /\ store = <<>>
    /\ clock = 0
    /\ log = <<>>
    /\ api_delay = 1
    /\ last_api_call = 0
    /\ time = StartTime
    /\ calls = <<>>
    /\ dPc = "idle"
    /\ dFn = "none"
    /\ dK = 0
    /\ dErr = {}
    /\ dNum = 0
    /\ dAvail = {}
    /\ dTimedOut = FALSE
    /\ iImpl = "none"
    /\ iPc = "idle"
    /\ iAttempt = 0
    /\ iFile = "absent"
    /\ iFile0 = "absent"
    /\ iNet = 0
    /\ iResult = "none"
    /\ iRuns = 0
    /\ operation_mode = "full"
    /\ shutdown_event = FALSE
    /\ image_queue = <<>>
    /\ stats = ZeroStats
    /\ oPc = "idle"
    /\ block_num = 0
    /\ oCur = NoBlock
    /\ oFailed = {}
    /\ wPc = "none"
    /\ wTask = Sentinel
    /\ wLast = NoDownload
    /\ fPc = "idle"
    /\ fFn = "none"
    /\ fPage = 0
    /\ fReqs = <<>>
    /\ fSleeps = <<>>
    /\ fResult = NoResult
    /\ fCalls = 0
    /\ rImpl = "none"
    /\ rRemote = <<>>
    /\ rStoreErr = {}
    /\ rPc = "idle"
    /\ rRuns = 0
    /\ rId = 0
    /\ rStats = ZeroRunStats
    /\ rLast = NoItem
    /\ rFailures = {}
    /\ rFirst = <<>>
    /\ mRemote = <<>>
    /\ discovery_cache = <<>>
    /\ mTask = <<>>
    /\ mOps = 0
    /\ mLast = NoDiscovery
    /\ mReturned = <<>>
    /\ pImpl = "none"
    /\ pHasImages = <<>>
    /\ pId = 0
    /\ pPc = "idle"
    /\ pImages = <<>>
    /\ pResult = <<>>
    /\ pShutdown = "none"
    /\ pLate = {}
    /\ pSignalled = NotSignalled
    /\ kLimit \in 1..MaxPoolLimit
    /\ kPermits = kLimit
    /\ kTasks = [t \in PoolTasks |-> "none"]
    /\ kAttempt = [t \in PoolTasks |-> 0]
    /\ kCalls = 0
    /\ kSubmitted = 0
    /\ tInit = {}
    /\ tRows = {}
    /\ tClock = 0
    /\ tLock = 0
    /\ tW = <<>>
    /\ tOrder = <<>>
    /\ tObs = <<>>
    /\ tVersions = {}
    /\ nPayload = NoPayload
    /\ nImpl = "none"
    /\ nResult = NoExtraction
    /\ qPhase = "idle"
    /\ qTasks = <<>>
    /\ qPattern = <<>>
    /\ qPermits = 0
    /\ qFound = {}
    /\ uStats = <<>>
    /\ uRead = <<>>
    /\ uOps = <<>>
    /\ uStarted = 0
    /\ bStore = <<>>
    /\ bBefore = <<>>
    /\ bTodo = {}
    /\ bPc = "idle"
    /\ bErrors = 0
    /\ bResult = "none"
    /\ gFlag = <<>>
    /\ gFiles = <<>>
    /\ gTasks = <<>>
    /\ gTodo = {}
    /\ gPc = "idle"
    /\ gMarked = 0
    /\ gErrors = 0
    /\ hItems = 0
    /\ hBlocks = 0
    /\ hPanels = {}
    /\ hPrimary = "unset"
    /\ hPc = "idle"
    /\ hTotal = 0
    /\ hPaged = 0
    /\ hReads = 0

SpecPool == InitPool /\ [][PoolNext]_vars

InitTx ==
    /\ store = <<>>
    /\ clock = 0
    /\ log = <<>>
    /\ api_delay = 1
    /\ last_api_call = 0
    /\ time = StartTime
    /\ calls = <<>>
    /\ dPc = "idle"
    /\ dFn = "none"
    /\ dK = 0
    /\ dErr = {}
    /\ dNum = 0
    /\ dAvail = {}
    /\ dTimedOut = FALSE
    /\ iImpl = "none"
    /\ iPc = "idle"
    /\ iAttempt = 0
    /\ iFile = "absent"
    /\ iFile0 = "absent"
    /\ iNet = 0
    /\ iResult = "none"
    /\ iRuns = 0
    /\ operation_mode = "full"
    /\ shutdown_event = FALSE
    /\ image_queue = <<>>
    /\ stats = ZeroStats
    /\ oPc = "idle"
    /\ block_num = 0
    /\ oCur = NoBlock
    /\ oFailed = {}
    /\ wPc = "none"
    /\ wTask = Sentinel
    /\ wLast = NoDownload
    /\ fPc = "idle"
    /\ fFn = "none"
    /\ fPage = 0
    /\ fReqs = <<>>
    /\ fSleeps = <<>>
    /\ fResult = NoResult
    /\ fCalls = 0
    /\ rImpl = "none"
    /\ rRemote = <<>>
    /\ rStoreErr = {}
    /\ rPc = "idle"
    /\ rRuns = 0
    /\ rId = 0
    /\ rStats = ZeroRunStats
    /\ rLast = NoItem
    /\ rFailures = {}
    /\ rFirst = <<>>
    /\ mRemote = <<>>
    /\ discovery_cache = <<>>
    /\ mTask = <<>>
    /\ mOps = 0
    /\ mLast = NoDiscovery
    /\ mReturned = <<>>
    /\ pImpl = "none"
    /\ pHasImages = <<>>
    /\ pId = 0
    /\ pPc = "idle"
    /\ pImages = <<>>
    /\ pResult = <<>>
    /\ pShutdown = "none"
    /\ pLate = {}
    /\ pSignalled = NotSignalled
    /\ kLimit = 0
    /\ kPermits = 0
    /\ kTasks = <<>>
    /\ kAttempt = <<>>
    /\ kCalls = 0
    /\ kSubmitted = 0
    /\ tInit \in TxInitRows
    /\ tRows = tInit
    /\ tClock = 1
    /\ tLock = 0
    /\ tW = [w \in Writers |-> TxIdle]
    /\ tOrder = <<>>
    /\ tObs = <<>>
    /\ tVersions = {tInit}
    /\ nPayload = NoPayload
    /\ nImpl = "none"
    /\ nResult = NoExtraction
    /\ qPhase = "idle"
    /\ qTasks = <<>>
    /\ qPattern = <<>>
    /\ qPermits = 0
    /\ qFound = {}
    /\ uStats = <<>>
    /\ uRead = <<>>
    /\ uOps = <<>>
    /\ uStarted = 0
    /\ bStore = <<>>
    /\ bBefore = <<>>
    /\ bTodo = {}
    /\ bPc = "idle"
    /\ bErrors = 0
    /\ bResult = "none"
    /\ gFlag = <<>>
    /\ gFiles = <<>>
    /\ gTasks = <<>>
    /\ gTodo = {}
    /\ gPc = "idle"
    /\ gMarked = 0
    /\ gErrors = 0
    /\ hItems = 0
    /\ hBlocks = 0
    /\ hPanels = {}
    /\ hPrimary = "unset"
    /\ hPc = "idle"
    /\ hTotal = 0
    /\ hPaged = 0
    /\ hReads = 0

SpecTx == InitTx /\ [][TxNext]_vars

InitNorm ==
    /\ store = <<>>
    /\ clock = 0
    /\ log = <<>>
    /\ api_delay = 1
    /\ last_api_call = 0
    /\ time = StartTime
    /\ calls = <<>>
    /\ dPc = "idle"
    /\ dFn = "none"
    /\ dK = 0
    /\ dErr = {}
    /\ dNum = 0
    /\ dAvail = {}
    /\ dTimedOut = FALSE
    /\ iImpl = "none"
    /\ iPc = "idle"
    /\ iAttempt = 0
    /\ iFile = "absent"
    /\ iFile0 = "absent"
    /\ iNet = 0
    /\ iResult = "none"
    /\ iRuns = 0
    /\ operation_mode = "full"
    /\ shutdown_event = FALSE
    /\ image_queue = <<>>
    /\ stats = ZeroStats
    /\ oPc = "idle"
    /\ block_num = 0
    /\ oCur = NoBlock
    /\ oFailed = {}
    /\ wPc = "none"
    /\ wTask = Sentinel
    /\ wLast = NoDownload
    /\ fPc = "idle"
    /\ fFn = "none"
    /\ fPage = 0
    /\ fReqs = <<>>
    /\ fSleeps = <<>>
    /\ fResult = NoResult
    /\ fCalls = 0
    /\ rImpl = "none"
    /\ rRemote = <<>>
    /\ rStoreErr = {}
    /\ rPc = "idle"
    /\ rRuns = 0
    /\ rId = 0
    /\ rStats = ZeroRunStats
    /\ rLast = NoItem
    /\ rFailures = {}
    /\ rFirst = <<>>
    /\ mRemote = <<>>
    /\ discovery_cache = <<>>
    /\ mTask = <<>>
    /\ mOps = 0
    /\ mLast = NoDiscovery
    /\ mReturned = <<>>
    /\ pImpl = "none"
    /\ pHasImages = <<>>
    /\ pId = 0
    /\ pPc = "idle"
    /\ pImages = <<>>
    /\ pResult = <<>>
    /\ pShutdown = "none"
    /\ pLate = {}
    /\ pSignalled = NotSignalled
    /\ kLimit = 0
    /\ kPermits = 0
    /\ kTasks = <<>>
    /\ kAttempt = <<>>
    /\ kCalls = 0
    /\ kSubmitted = 0
    /\ tInit = {}
    /\ tRows = {}
    /\ tClock = 0
    /\ tLock = 0
    /\ tW = <<>>
    /\ tOrder = <<>>
    /\ tObs = <<>>
    /\ tVersions = {}
    /\ nPayload \in Payloads
    /\ nImpl = "none"
    /\ nResult = NoExtraction
    /\ qPhase = "idle"
    /\ qTasks = <<>>
    /\ qPattern = <<>>
    /\ qPermits = 0
    /\ qFound = {}
    /\ uStats = <<>>
    /\ uRead = <<>>
    /\ uOps = <<>>
    /\ uStarted = 0
    /\ bStore = <<>>
    /\ bBefore = <<>>
    /\ bTodo = {}
    /\ bPc = "idle"
    /\ bErrors = 0
    /\ bResult = "none"
    /\ gFlag = <<>>
    /\ gFiles = <<>>
    /\ gTasks = <<>>
    /\ gTodo = {}
    /\ gPc = "idle"
    /\ gMarked = 0
    /\ gErrors = 0
    /\ hItems = 0
    /\ hBlocks = 0
    /\ hPanels = {}
    /\ hPrimary = "unset"
    /\ hPc = "idle"
    /\ hTotal = 0
    /\ hPaged = 0
    /\ hReads = 0

SpecNorm == InitNorm /\ [][NormNext]_vars

InitProbe ==
    /\ store = <<>>
    /\ clock = 0
    /\ log = <<>>
    /\ api_delay = 1
    /\ last_api_call = 0
    /\ time = StartTime
    /\ calls = <<>>
    /\ dPc = "idle"
    /\ dFn = "none"
    /\ dK = 0
    /\ dErr = {}
    /\ dNum = 0
    /\ dAvail = {}
    /\ dTimedOut = FALSE
    /\ iImpl = "none"
    /\ iPc = "idle"
    /\ iAttempt = 0
    /\ iFile = "absent"
    /\ iFile0 = "absent"
    /\ iNet = 0
    /\ iResult = "none"
    /\ iRuns = 0
    /\ operation_mode = "full"
    /\ shutdown_event = FALSE
    /\ image_queue = <<>>
    /\ stats = ZeroStats
    /\ oPc = "idle"
    /\ block_num = 0
    /\ oCur = NoBlock
    /\ oFailed = {}
    /\ wPc = "none"
    /\ wTask = Sentinel
    /\ wLast = NoDownload
    /\ fPc = "idle"
    /\ fFn = "none"
    /\ fPage = 0
    /\ fReqs = <<>>
    /\ fSleeps = <<>>
    /\ fResult = NoResult
    /\ fCalls = 0
    /\ rImpl = "none"
    /\ rRemote = <<>>
    /\ rStoreErr = {}
    /\ rPc = "idle"
    /\ rRuns = 0
    /\ rId = 0
    /\ rStats = ZeroRunStats
    /\ rLast = NoItem
    /\ rFailures = {}
    /\ rFirst = <<>>
    /\ mRemote = <<>>
    /\ discovery_cache = <<>>
    /\ mTask = <<>>
    /\ mOps = 0
    /\ mLast = NoDiscovery
    /\ mReturned = <<>>
    /\ pImpl = "none"
    /\ pHasImages = <<>>
    /\ pId = 0
    /\ pPc = "idle"
    /\ pImages = <<>>
    /\ pResult = <<>>
    /\ pShutdown = "none"
    /\ pLate = {}
    /\ pSignalled = NotSignalled
    /\ kLimit = 0
    /\ kPermits = 0
    /\ kTasks = <<>>
    /\ kAttempt = <<>>
    /\ kCalls = 0
    /\ kSubmitted = 0
    /\ tInit = {}
    /\ tRows = {}
    /\ tClock = 0
    /\ tLock = 0
    /\ tW = <<>>
    /\ tOrder = <<>>
    /\ tObs = <<>>
    /\ tVersions = {}
    /\ nPayload = NoPayload
    /\ nImpl = "none"
    /\ nResult = NoExtraction
    /\ qPhase = "start"
    /\ qTasks = [t \in ProbeTasks |-> "none"]
    /\ qPattern = [t \in ProbeTasks |-> 0]
    /\ qPermits = ProbeSemaphore
    /\ qFound = {}
    /\ uStats = <<>>
    /\ uRead = <<>>
    /\ uOps = <<>>
    /\ uStarted = 0
    /\ bStore = <<>>
    /\ bBefore = <<>>
    /\ bTodo = {}
    /\ bPc = "idle"
    /\ bErrors = 0
    /\ bResult = "none"
    /\ gFlag = <<>>
    /\ gFiles = <<>>
    /\ gTasks = <<>>
    /\ gTodo = {}
    /\ gPc = "idle"
    /\ gMarked = 0
    /\ gErrors = 0
    /\ hItems = 0
    /\ hBlocks = 0
    /\ hPanels = {}
    /\ hPrimary = "unset"
    /\ hPc = "idle"
    /\ hTotal = 0
    /\ hPaged = 0
    /\ hReads = 0

SpecProbe == InitProbe /\ [][ProbeNext]_vars

InitStat ==
    /\ store = <<>>
    /\ clock = 0
    /\ log = <<>>
    /\ api_delay = 1
    /\ last_api_call = 0
    /\ time = StartTime
    /\ calls = <<>>
    /\ dPc = "idle"
    /\ dFn = "none"
    /\ dK = 0
    /\ dErr = {}
    /\ dNum = 0
    /\ dAvail = {}
    /\ dTimedOut = FALSE
    /\ iImpl = "none"
    /\ iPc = "idle"
    /\ iAttempt = 0
    /\ iFile = "absent"
    /\ iFile0 = "absent"
    /\ iNet = 0
    /\ iResult = "none"
    /\ iRuns = 0
    /\ operation_mode = "full"
    /\ shutdown_event = FALSE
    /\ image_queue = <<>>
    /\ stats = ZeroStats
    /\ oPc = "idle"
    /\ block_num = 0
    /\ oCur = NoBlock
    /\ oFailed = {}
    /\ wPc = "none"
    /\ wTask = Sentinel
    /\ wLast = NoDownload
    /\ fPc = "idle"
    /\ fFn = "none"
    /\ fPage = 0
    /\ fReqs = <<>>
    /\ fSleeps = <<>>
    /\ fResult = NoResult
    /\ fCalls = 0
    /\ rImpl = "none"
    /\ rRemote = <<>>
    /\ rStoreErr = {}
    /\ rPc = "idle"
    /\ rRuns = 0
    /\ rId = 0
    /\ rStats = ZeroRunStats
    /\ rLast = NoItem
    /\ rFailures = {}
    /\ rFirst = <<>>
    /\ mRemote = <<>>
    /\ discovery_cache = <<>>
    /\ mTask = <<>>
    /\ mOps = 0
    /\ mLast = NoDiscovery
    /\ mReturned = <<>>
    /\ pImpl = "none"
    /\ pHasImages = <<>>
    /\ pId = 0
    /\ pPc = "idle"
    /\ pImages = <<>>
    /\ pResult = <<>>
    /\ pShutdown = "none"
    /\ pLate = {}
    /\ pSignalled = NotSignalled
    /\ kLimit = 0
    /\ kPermits = 0
    /\ kTasks = <<>>
    /\ kAttempt = <<>>
    /\ kCalls = 0
    /\ kSubmitted = 0
    /\ tInit = {}
    /\ tRows = {}
    /\ tClock = 0
    /\ tLock = 0
    /\ tW = <<>>
    /\ tOrder = <<>>
    /\ tObs = <<>>
    /\ tVersions = {}
    /\ nPayload = NoPayload
    /\ nImpl = "none"
    /\ nResult = NoExtraction
    /\ qPhase = "idle"
    /\ qTasks = <<>>
    /\ qPattern = <<>>
    /\ qPermits = 0
    /\ qFound = {}
    /\ uStats = [k \in StatCounters |-> 0]
    /\ uRead = [th \in StatThreads |-> NoRead]
    /\ uOps = [k \in StatCounters |-> 0]
    /\ uStarted = 0
    /\ bStore = <<>>
    /\ bBefore = <<>>
    /\ bTodo = {}
    /\ bPc = "idle"
    /\ bErrors = 0
    /\ bResult = "none"
    /\ gFlag = <<>>
    /\ gFiles = <<>>
    /\ gTasks = <<>>
    /\ gTodo = {}
    /\ gPc = "idle"
    /\ gMarked = 0
    /\ gErrors = 0
    /\ hItems = 0
    /\ hBlocks = 0
    /\ hPanels = {}
    /\ hPrimary = "unset"
    /\ hPc = "idle"
    /\ hTotal = 0
    /\ hPaged = 0
    /\ hReads = 0

SpecStat == InitStat /\ [][StatNext]_vars

InitBlk ==
    /\ store = <<>>
    /\ clock = 0
    /\ log = <<>>
    /\ api_delay = 1
    /\ last_api_call = 0
    /\ time = StartTime
    /\ calls = <<>>
    /\ dPc = "idle"
    /\ dFn = "none"
    /\ dK = 0
    /\ dErr = {}
    /\ dNum = 0
    /\ dAvail = {}
    /\ dTimedOut = FALSE
    /\ iImpl = "none"
    /\ iPc = "idle"
    /\ iAttempt = 0
    /\ iFile = "absent"
    /\ iFile0 = "absent"
    /\ iNet = 0
    /\ iResult = "none"
    /\ iRuns = 0
    /\ operation_mode = "full"
    /\ shutdown_event = FALSE
    /\ image_queue = <<>>
    /\ stats = ZeroStats
    /\ oPc = "idle"
    /\ block_num = 0
    /\ oCur = NoBlock
    /\ oFailed = {}
    /\ wPc = "none"
    /\ wTask = Sentinel
    /\ wLast = NoDownload
    /\ fPc = "idle"
    /\ fFn = "none"
    /\ fPage = 0
    /\ fReqs = <<>>
    /\ fSleeps = <<>>
    /\ fResult = NoResult
    /\ fCalls = 0
    /\ rImpl = "none"
    /\ rRemote = <<>>
    /\ rStoreErr = {}
    /\ rPc = "idle"
    /\ rRuns = 0
    /\ rId = 0
    /\ rStats = ZeroRunStats
    /\ rLast = NoItem
    /\ rFailures = {}
    /\ rFirst = <<>>
    /\ mRemote = <<>>
    /\ discovery_cache = <<>>
    /\ mTask = <<>>
    /\ mOps = 0
    /\ mLast = NoDiscovery
    /\ mReturned = <<>>
    /\ pImpl = "none"
    /\ pHasImages = <<>>
    /\ pId = 0
    /\ pPc = "idle"
    /\ pImages = <<>>
    /\ pResult = <<>>
    /\ pShutdown = "none"
    /\ pLate = {}
    /\ pSignalled = NotSignalled
    /\ kLimit = 0
    /\ kPermits = 0
    /\ kTasks = <<>>
    /\ kAttempt = <<>>
    /\ kCalls = 0
    /\ kSubmitted = 0
    /\ tInit = {}
    /\ tRows = {}
    /\ tClock = 0
    /\ tLock = 0
    /\ tW = <<>>
    /\ tOrder = <<>>
    /\ tObs = <<>>
    /\ tVersions = {}
    /\ nPayload = NoPayload
    /\ nImpl = "none"
    /\ nResult = NoExtraction
    /\ qPhase = "idle"
    /\ qTasks = <<>>
    /\ qPattern = <<>>
    /\ qPermits = 0
    /\ qFound = {}
    /\ uStats = <<>>
    /\ uRead = <<>>
    /\ uOps = <<>>
    /\ uStarted = 0
    /\ bStore \in BlockStores
    /\ bBefore = bStore
    /\ bTodo \in SUBSET PanelIds
    /\ bPc = "block"
    /\ bErrors = 0
    /\ bResult = "none"
    /\ gFlag = <<>>
    /\ gFiles = <<>>
    /\ gTasks = <<>>
    /\ gTodo = {}
    /\ gPc = "idle"
    /\ gMarked = 0
    /\ gErrors = 0
    /\ hItems = 0
    /\ hBlocks = 0
    /\ hPanels = {}
    /\ hPrimary = "unset"
    /\ hPc = "idle"
    /\ hTotal = 0
    /\ hPaged = 0
    /\ hReads = 0

SpecBlk == InitBlk /\ [][BlkNext]_vars

InitFlag ==
    /\ store = <<>>
    /\ clock = 0
    /\ log = <<>>
    /\ api_delay = 1
    /\ last_api_call = 0
    /\ time = StartTime
    /\ calls = <<>>
    /\ dPc = "idle"
    /\ dFn = "none"
    /\ dK = 0
    /\ dErr = {}
    /\ dNum = 0
    /\ dAvail = {}
    /\ dTimedOut = FALSE
    /\ iImpl = "none"
    /\ iPc = "idle"
    /\ iAttempt = 0
    /\ iFile = "absent"
    /\ iFile0 = "absent"
    /\ iNet = 0
    /\ iResult = "none"
    /\ iRuns = 0
    /\ operation_mode = "full"
    /\ shutdown_event = FALSE
    /\ image_queue = <<>>
    /\ stats = ZeroStats
    /\ oPc = "idle"
    /\ block_num = 0
    /\ oCur = NoBlock
    /\ oFailed = {}
    /\ wPc = "none"
    /\ wTask = Sentinel
    /\ wLast = NoDownload
    /\ fPc = "idle"
    /\ fFn = "none"
    /\ fPage = 0
    /\ fReqs = <<>>
    /\ fSleeps = <<>>
    /\ fResult = NoResult
    /\ fCalls = 0
    /\ rImpl = "none"
    /\ rRemote = <<>>
    /\ rStoreErr = {}
    /\ rPc = "idle"
    /\ rRuns = 0
    /\ rId = 0
    /\ rStats = ZeroRunStats
    /\ rLast = NoItem
    /\ rFailures = {}
    /\ rFirst = <<>>
    /\ mRemote = <<>>
    /\ discovery_cache = <<>>
    /\ mTask = <<>>
    /\ mOps = 0
    /\ mLast = NoDiscovery
    /\ mReturned = <<>>
    /\ pImpl = "none"
    /\ pHasImages = <<>>
    /\ pId = 0
    /\ pPc = "idle"
    /\ pImages = <<>>
    /\ pResult = <<>>
    /\ pShutdown = "none"
    /\ pLate = {}
    /\ pSignalled = NotSignalled
    /\ kLimit = 0
    /\ kPermits = 0
    /\ kTasks = <<>>
    /\ kAttempt = <<>>
    /\ kCalls = 0
    /\ kSubmitted = 0
    /\ tInit = {}
    /\ tRows = {}
    /\ tClock = 0
    /\ tLock = 0
    /\ tW = <<>>
    /\ tOrder = <<>>
    /\ tObs = <<>>
    /\ tVersions = {}
    /\ nPayload = NoPayload
    /\ nImpl = "none"
    /\ nResult = NoExtraction
    /\ qPhase = "idle"
    /\ qTasks = <<>>
    /\ qPattern = <<>>
    /\ qPermits = 0
    /\ qFound = {}
    /\ uStats = <<>>
    /\ uRead = <<>>
    /\ uOps = <<>>
    /\ uStarted = 0
    /\ bStore = <<>>
    /\ bBefore = <<>>
    /\ bTodo = {}
    /\ bPc = "idle"
    /\ bErrors = 0
    /\ bResult = "none"
    /\ gFlag = [id \in FlagIds |-> FALSE]
    /\ gFiles \in [FlagIds -> 0..1]
    /\ gTasks = gFiles
    /\ gTodo = {}
    /\ gPc = "start"
    /\ gMarked = 0
    /\ gErrors = 0
    /\ hItems = 0
    /\ hBlocks = 0
    /\ hPanels = {}
    /\ hPrimary = "unset"
    /\ hPc = "idle"
    /\ hTotal = 0
    /\ hPaged = 0
    /\ hReads = 0

SpecFlag == InitFlag /\ [][FlagNext]_vars

InitDb ==
    /\ store = <<>>
    /\ clock = 0
    /\ log = <<>>
    /\ api_delay = 1
    /\ last_api_call = 0
    /\ time = StartTime
    /\ calls = <<>>
    /\ dPc = "idle"
    /\ dFn = "none"
    /\ dK = 0
    /\ dErr = {}
    /\ dNum = 0
    /\ dAvail = {}
    /\ dTimedOut = FALSE
    /\ iImpl = "none"
    /\ iPc = "idle"
    /\ iAttempt = 0
    /\ iFile = "absent"
    /\ iFile0 = "absent"
    /\ iNet = 0
    /\ iResult = "none"
    /\ iRuns = 0
    /\ operation_mode = "full"
    /\ shutdown_event = FALSE
    /\ image_queue = <<>>
    /\ stats = ZeroStats
    /\ oPc = "idle"
    /\ block_num = 0
    /\ oCur = NoBlock
    /\ oFailed = {}
    /\ wPc = "none"
    /\ wTask = Sentinel
    /\ wLast = NoDownload
    /\ fPc = "idle"
    /\ fFn = "none"
    /\ fPage = 0
    /\ fReqs = <<>>
    /\ fSleeps = <<>>
    /\ fResult = NoResult
    /\ fCalls = 0
    /\ rImpl = "none"
    /\ rRemote = <<>>
    /\ rStoreErr = {}
    /\ rPc = "idle"
    /\ rRuns = 0
    /\ rId = 0
    /\ rStats = ZeroRunStats
    /\ rLast = NoItem
    /\ rFailures = {}
    /\ rFirst = <<>>
    /\ mRemote = <<>>
    /\ discovery_cache = <<>>
    /\ mTask = <<>>
    /\ mOps = 0
    /\ mLast = NoDiscovery
    /\ mReturned = <<>>
    /\ pImpl = "none"
    /\ pHasImages = <<>>
    /\ pId = 0
    /\ pPc = "idle"
    /\ pImages = <<>>
    /\ pResult = <<>>
    /\ pShutdown = "none"
    /\ pLate = {}
    /\ pSignalled = NotSignalled
    /\ kLimit = 0
    /\ kPermits = 0
    /\ kTasks = <<>>
    /\ kAttempt = <<>>
    /\ kCalls = 0
    /\ kSubmitted = 0
    /\ tInit = {}
    /\ tRows = {}
    /\ tClock = 0
    /\ tLock = 0
    /\ tW = <<>>
    /\ tOrder = <<>>
    /\ tObs = <<>>
    /\ tVersions = {}
    /\ nPayload = NoPayload
    /\ nImpl = "none"
    /\ nResult = NoExtraction
    /\ qPhase = "idle"
    /\ qTasks = <<>>
    /\ qPattern = <<>>
    /\ qPermits = 0
    /\ qFound = {}
    /\ uStats = <<>>
    /\ uRead = <<>>
    /\ uOps = <<>>
    /\ uStarted = 0
    /\ bStore = <<>>
    /\ bBefore = <<>>
    /\ bTodo = {}
    /\ bPc = "idle"
    /\ bErrors = 0
    /\ bResult = "none"
    /\ gFlag = <<>>
    /\ gFiles = <<>>
    /\ gTasks = <<>>
    /\ gTodo = {}
    /\ gPc = "idle"
    /\ gMarked = 0
    /\ gErrors = 0
    /\ hItems \in 0..1
    /\ hBlocks \in 0..1
    /\ hPanels \in {{}, {<<1, 1>>}}
    /\ hPrimary = "unset"
    /\ hPc = "new"
    /\ hTotal = 0
    /\ hPaged = 0
    /\ hReads = 0

SpecDb == InitDb /\ [][DbNext]_vars

----------------------------------------------------------------------------
(* Claims about the change-tracking store                                  *)

\* the log entries that performed an upsert
Upserts == {k \in 1..Len(log) : log[k].result # "NoId"}

\* the upserts for id, in order of execution
UpsertsOf(id) == {k \in Upserts : log[k].id = id}

FieldsOverwritten(row, rec) ==
    /\ row.title = rec.title
    /\ row.subjects = rec.subjects
    /\ row.names = rec.names

\* C1: an upsert for an id without a row inserts one with first_seen =
\* last_updated = last_checked = now and returns New; an upsert for an id
\* whose stored hash differs from the record's hash overwrites the fields,
\* sets last_updated = last_checked = now and returns Changed.
C1_UpsertNewAndChanged ==
    \A k \in Upserts :
        LET e == log[k] IN
        /\ e.before = <<>> =>
              /\ e.result = "New"
              /\ FieldsOverwritten(e.after[1], e.rec)
              /\ e.after[1].first_seen = e.now
              /\ e.after[1].last_updated = e.now
              /\ e.after[1].last_checked = e.now
        /\ (e.before # <<>> /\ e.before[1].content_hash # ContentHash(e.rec)) =>
              /\ e.result = "Changed"
              /\ FieldsOverwritten(e.after[1], e.rec)
              /\ e.after[1].last_updated = e.now
              /\ e.after[1].last_checked = e.now

C1_Witness ==
    /\ \E k \in Upserts : log[k].result = "New"
    /\ \E k \in Upserts : log[k].result = "Changed" /\ log[k].before # <<>>

\* C2: two upserts in a row of the same record for an id without a row give
\* New then Unchanged, first_seen is the same after both and last_checked
\* after the second is later than after the first.
C2_UpsertTwice ==
    \A k \in Upserts : \A m \in Upserts :
        ( /\ k < m
          /\ log[k].id = log[m].id
          /\ log[k].before = <<>>
          /\ log[k].rec = log[m].rec
          /\ \A j \in UpsertsOf(log[k].id) : ~(k < j /\ j < m) ) =>
        /\ log[k].result = "New"
        /\ log[m].result = "Unchanged"
        /\ log[m].after[1].first_seen = log[k].after[1].first_seen
        /\ log[m].after[1].last_checked > log[k].after[1].last_checked

C2_Witness ==
    \E k \in Upserts : \E m \in Upserts :
        /\ k < m /\ log[k].id = log[m].id /\ log[k].rec = log[m].rec
        /\ log[k].before = <<>>
        /\ \A j \in UpsertsOf(log[k].id) : ~(k < j /\ j < m)
        /\ log[m].result = "Unchanged"

\* the records r and q differ at most in the order of subjects and names
SameUpToOrder(r, q) ==
    /\ r.title = q.title
    /\ {r.subjects[i] : i \in DOMAIN r.subjects} = {q.subjects[i] : i \in DOMAIN q.subjects}
    /\ Len(r.subjects) = Len(q.subjects)
    /\ {r.names[i] : i \in DOMAIN r.names} = {q.names[i] : i \in DOMAIN q.names}
    /\ Len(r.names) = Len(q.names)

\* C3: the hash stored by an upsert is the same for two records that differ
\* only in the order of subjects or names, and differs for two records
\* that differ in title.
C3_HashStability ==
    \A k \in Upserts : \A m \in Upserts :
        /\ SameUpToOrder(log[k].rec, log[m].rec) =>
              log[k].after[1].content_hash = log[m].after[1].content_hash
        /\ log[k].rec.title # log[m].rec.title =>
              log[k].after[1].content_hash # log[m].after[1].content_hash

C3_Witness ==
    /\ \E k \in Upserts : \E m \in Upserts :
          /\ SameUpToOrder(log[k].rec, log[m].rec)
          /\ log[k].rec.subjects # log[m].rec.subjects
    /\ \E k \in Upserts : \E m \in Upserts :
          log[k].rec.title # log[m].rec.title

\* C4: the stored hash of an id is the hash of the record of its latest
\* upsert; an upsert after the first returns Unchanged, keeping the hash,
\* exactly when its record hashes to the stored hash, and otherwise
\* returns Changed, with a new hash and last_updated bumped.
C4_HashTracksLatest ==
    /\ \A id \in Ids : \A k \in UpsertsOf(id) :
          (\A j \in UpsertsOf(id) : j <= k) =>
              /\ id \in DOMAIN store
              /\ store[id].content_hash = ContentHash(log[k].rec)
    /\ \A k \in Upserts :
          LET e == log[k] IN
          e.before # <<>> =>
             /\ (e.result = "Unchanged") <=> (ContentHash(e.rec) = e.before[1].content_hash)
             /\ e.result = "Unchanged" =>
                    e.after[1].content_hash = e.before[1].content_hash
             /\ e.result # "Unchanged" =>
                    /\ e.result = "Changed"
                    /\ e.after[1].content_hash # e.before[1].content_hash
                    /\ e.after[1].content_hash = ContentHash(e.rec)
                    /\ e.after[1].last_updated > e.before[1].last_updated

C4_Witness ==
    \E id \in Ids :
        /\ \E k \in UpsertsOf(id) : log[k].result = "Unchanged"
        /\ \E k \in UpsertsOf(id) : log[k].result = "Changed"

\* C5: New is returned at most once per id, by the first upsert of the id;
\* every later upsert returns Unchanged or Changed, and an id that was
\* upserted keeps a row.
C5_PresentOnce ==
    \A id \in Ids :
        /\ Cardinality({k \in UpsertsOf(id) : log[k].result = "New"}) <= 1
        /\ \A k \in UpsertsOf(id) :
              IF \A j \in UpsertsOf(id) : k <= j
              THEN log[k].result = "New" /\ log[k].before = <<>>
              ELSE log[k].result \in {"Unchanged", "Changed"} /\ log[k].before # <<>>
        /\ UpsertsOf(id) # {} => id \in DOMAIN store
        /\ id \in DOMAIN store => UpsertsOf(id) # {}

C5_Witness ==
    \E id \in Ids :
        /\ Cardinality(UpsertsOf(id)) >= 3
        /\ \E k \in UpsertsOf(id) : log[k].result = "Changed"
        /\ \E k \in UpsertsOf(id) : log[k].result = "Unchanged"

----------------------------------------------------------------------------
(* Claims about the rate limiter                                           *)

\* C6: two consecutive requests sent through the limiter start at least
\* the delay apart (the smaller of the delays in force at the two starts),
\* so that N requests span at least (N-1) times the smallest delay.
C6_MinimumInterval ==
    /\ \A i \in 2..Len(calls) :
          calls[i].start - calls[i-1].start >= Min(calls[i-1].delay, calls[i].delay)
    /\ \A d \in ConfiguredDelays :
          (Len(calls) >= 1 /\ \A i \in 1..Len(calls) : calls[i].delay >= d) =>
              calls[Len(calls)].start - calls[1].start >= (Len(calls) - 1) * d

\* C7: every 429 sets the delay to min(2 * delay, ceiling), and the delay
\* is never above the ceiling.
C7_DelayCapped ==
    /\ \A i \in 1..Len(calls) :
          calls[i].outcome = "429" =>
              calls[i].delay_after = Min(2 * calls[i].delay, DelayCeiling)
    /\ api_delay <= DelayCeiling

----------------------------------------------------------------------------
(* Claims about discovery                                                  *)

\* the probe source answers 200 for pages 1..dK and 404 for every later
\* page, and the probing ran to its end
BoundarySource == dK >= 1 /\ dErr = {} /\ ~dTimedOut

----------------------------------------------------------------------------
(* Claims about the image downloaders                                      *)

\* C9: a task whose destination exists and passes the validity check when
\* the task begins makes no network request and leaves the file as it was.
C9_ValidFileSkipped ==
    (iPc # "idle" /\ Exists(iFile0) /\ Validates(iFile0)) =>
        /\ iNet = 0
        /\ iFile = iFile0

C9_Witness ==
    /\ iPc = "done"
    /\ iImpl = "async"
    /\ iFile0 = "valid"
    /\ iResult = "ok"
    /\ iNet = 0

\* C10: the destination file is at every point absent or a complete image
\* that passed validation.
C10_NoPartialFile == iFile \in {"absent", "valid"}

----------------------------------------------------------------------------
(* Claims about the orchestrator and its image queue                       *)

\* tasks the worker has finished, downloaded or recorded as failed
Processed == stats.images_downloaded + stats.image_errors

\* the tasks queued for the block are one for each (manuscript, resolution)
\* pair, none twice
ExactFanOut(cur) ==
    /\ Len(cur.queued) = Cardinality(cur.pages) * Len(Resolutions)
    /\ \A p \in cur.pages, r \in 1..Len(Resolutions) :
          Cardinality({k \in 1..Len(cur.queued) :
                         cur.queued[k] = [block_id |-> cur.block, manuscript_id |-> p,
                                          resolution |-> Resolutions[r]]}) = 1

\* generate_iiif_urls gives one URL for each (manuscript, size) pair
ExactUrls(cur) ==
    LET urls == GenerateIiifUrls(cur.block, cur.pages)
    IN /\ Len(urls) = Cardinality(cur.pages) * Len(IiifSizes)
       /\ \A p \in cur.pages, r \in 1..Len(IiifSizes) :
             Cardinality({k \in 1..Len(urls) : urls[k] = <<cur.block, p, IiifSizes[r]>>}) = 1

C12_FailureDoesNotStopRun ==
    [][/\ (oFailed' # oFailed) => (oPc' = "collected" /\ block_num' = block_num)
       /\ (oPc = "collected" /\ oPc' # "collected") =>
             (oPc' = "loop" /\ block_num' = block_num + 1)
       /\ (oPc = "loop" /\ oPc' \in {"joining", "done"}) =>
             (block_num > MaxBlocks \/ shutdown_event)]_vars

\* block 1 failed and block 2 was fetched and stored in the same run
C12_Witness ==
    /\ 1 \in oFailed
    /\ oCur.block = 2
    /\ oCur.fetch = "data"
    /\ oCur.upsert = "created"
    /\ ~shutdown_event

\* C14: when the run has ended, every task that was queued has been
\* processed (downloaded or recorded as failed) and the worker was not
\* stopped in the middle of a download.
C14_QueueDrained ==
    (oPc = "done" /\ wPc \in {"exited", "killed"}) =>
        (wPc # "killed" /\ Processed = stats.images_queued)

C16_NotFoundSkipped ==
    oCur.resp = "404" =>
        /\ oCur.fetch = "none"
        /\ oCur.upsert = "skipped"
        /\ oCur.pages = {}
        /\ oCur.queued = <<>>
        /\ oCur.block \notin oFailed
        /\ oPc \in {"loop", "joining", "done"} => block_num = oCur.block + 1

\* block 1 was not found and the loop is at block 2
C16_Witness ==
    /\ oCur.resp = "404"
    /\ oCur.block = 1
    /\ oPc = "loop"
    /\ block_num = 2
    /\ ~shutdown_event

\* C20: image tasks are queued for a block only when its storage returned
\* created or updated.
C20_EnqueueOnlyAfterStored ==
    oCur.queued # <<>> => oCur.upsert \in {"created", "updated"}

----------------------------------------------------------------------------
(* Claims about resuming a run                                             *)

\* the database after one uninterrupted run over the ids id..MaxIds that
\* starts with the database st at clock now
RECURSIVE UninterruptedStore(_, _, _)
UninterruptedStore(st, now, id) ==
    IF id > MaxIds THEN st
    ELSE IF rRemote[id] \in {"notfound", "neterror"} \/ id \in rStoreErr
    THEN UninterruptedStore(st, now, id + 1)
    ELSE UninterruptedStore(UpsertStore(st, id, RemoteRecord(rRemote[id]), now + 1),
                            now + 1, id + 1)

\* C13: a run that was stopped after any id and started again at an id at
\* or before that point ends with the records of one uninterrupted run
\* over the range: the same ids, fields and content_hash, and for each id
\* the first_seen of its first upsert (the second run never resets it).
C13_ResumeEquivalent ==
    rPc = "done" =>
        LET ref == UninterruptedStore(<<>>, 0, 1)
        IN /\ DOMAIN store = DOMAIN ref
           /\ \A i \in DOMAIN store :
                 /\ store[i].title = ref[i].title
                 /\ store[i].subjects = ref[i].subjects
                 /\ store[i].names = ref[i].names
                 /\ store[i].content_hash = ref[i].content_hash
                 /\ store[i].first_seen = rFirst[i]

\* a second run has ended that upserted again an id the first run had stored
C13_Witness ==
    /\ rPc = "done"
    /\ rRuns = 2
    /\ Cardinality(DOMAIN store) >= 2
    /\ \E i \in DOMAIN store : store[i].last_checked > store[i].first_seen

\* C19: every id that failed in the run has added to the error counter.
C19_FailureCounted == rStats.errors >= Cardinality(rFailures)

----------------------------------------------------------------------------
(* Claims about the LOC API client                                         *)

\* C17: a call that was answered 429 to every request ends by raising an
\* error that says the rate limit was hit.
C17_RateLimitedSurfaced ==
    (fPc = "done" /\ fReqs # <<>> /\ \A k \in 1..Len(fReqs) : fReqs[k] = "429") =>
        (fResult.kind = "raise" /\ fResult.ratelimit)

\* C18: get_item_metadata raises for a transport error only after it has
\* sent the request again.
C18_TransportErrorRetried ==
    (fPc = "done" /\ fFn = "item" /\ fResult.kind = "raise" /\
     fReqs[Len(fReqs)] = "neterr") => Len(fReqs) > 1

----------------------------------------------------------------------------
(* Claims about manuscript discovery by metadata                           *)

\* C21: at most one get_item_metadata call waits for its answer at any
\* time.
C21_OneCallInFlight == Cardinality(InFlight) <= 1

\* C28: a discovery that found no usable count and whose every network
\* call failed returns exactly the page ms0001.
C28_TotalFailureOnePage ==
    (mLast.id # 0 /\ mLast.failed /\ ~HasCount(mLast.fetched)) =>
        mLast.result = {1}

\* C29: a discovery for a record whose metadata was already fetched and
\* carries a usable count makes no further call.
C29_NoCallWithKnownCount ==
    (mLast.id # 0 /\ HasCount(mLast.fetched)) => mLast.calls = 0

C22_NeverWaitsForImages == ~(AwaitingImages /\ pImages[pId] = "running")

C23_InFlightWithinBound == Cardinality(PoolInFlight) <= kLimit

\* more tasks than the bound were submitted, the bound is reached and the
\* other tasks wait
C23_Witness ==
    /\ kSubmitted > kLimit
    /\ Cardinality(PoolInFlight) = kLimit
    /\ \E t \in PoolTasks : kTasks[t] = "waiting"

\* the row two upserts leave when they run one after the other
SerialRow(first, second) ==
    LET st1 == [i \in {TxId} |->
                   UpsertRow(StoreOf(tInit), TxId, tW[first].rec, tW[first].now)]
    IN UpsertRow(st1, TxId, tW[second].rec, tW[second].now)

C26_NeverRaisesAbsentOmitted ==
    nImpl # "none" =>
        /\ nResult.status = "record"
        /\ nPayload.title = Absent => nResult.rec.title = Absent
        /\ nPayload.subject = Absent => nResult.rec.subjects = Absent

\* what the rule of C27 makes of a list field
Collapsed(f) ==
    IF f.t # "list" THEN f
    ELSE IF Len(f.v) = 1 THEN Field("scalar", f.v)
    ELSE Field("list", Dedupe(f.v))

\* C27: a list field of several elements is returned with its duplicates
\* removed, first occurrences in their order, and a list of one element is
\* returned as that element.
C27_ListsDedupedSingletonsCollapsed ==
    (nImpl # "none" /\ nResult.status = "record") =>
        /\ nPayload.subject.t = "list" =>
              nResult.rec.subjects = Collapsed(nPayload.subject)
        /\ nPayload.image_url.t = "list" =>
              nResult.rec.image_urls = Collapsed(nPayload.image_url)

----------------------------------------------------------------------------
(* probing of the image service                                            *)

\* C34: during the probing of one block at most ProbeSemaphore (3) HEAD
\* requests are in flight, in the standard and in the extended range, and
\* the permits taken are the requests in flight
C34_ProbesBounded ==
    /\ Cardinality(ProbesInFlight) <= ProbeSemaphore
    /\ qPermits = ProbeSemaphore - Cardinality(ProbesInFlight)

\* three requests in flight while a further task of the extended range
\* waits for a permit
C34_Witness ==
    /\ qPhase = "extended"
    /\ Cardinality(ProbesInFlight) = ProbeSemaphore
    /\ \E t \in ProbeTasks : qTasks[t] = "waiting"
    /\ \E t \in ProbesInFlight : qPattern[t] > 1

----------------------------------------------------------------------------
(* the statistics counters under two threads                               *)

\* C35: no increment of a statistics counter is lost: when no increment
\* is under way, every counter equals the number of increments performed
\* on it
C35_NoIncrementLost ==
    (\A th \in StatThreads : uRead[th] = NoRead) =>
        \A key \in StatCounters : uStats[key] = uOps[key]

----------------------------------------------------------------------------
(* persisting a block and its panels                                       *)

\* C38: when persisting a block failed part-way (a database error was
\* counted), the rows of the block are the rows from before the persist
C38_FailureLeavesStoreUnchanged ==
    (bPc = "done" /\ bErrors > 0) => bStore = bBefore

----------------------------------------------------------------------------
(* the images_downloaded flag                                              *)

\* C39: a record has its images_downloaded flag set only if an image task
\* of the record completed and left a validated image file
C39_FlagOnlyAfterDownload ==
    \A id \in FlagIds : gFlag[id] => (gTasks[id] > 0 /\ gFiles[id] > 0)

----------------------------------------------------------------------------
(* the record count and the pages of the API                               *)

\* C40: on an initialized DatabaseManager, whatever rows were inserted,
\* get_total_records() equals the number of records reached by paging
\* through get_records()
C40_TotalEqualsPaged ==
    hReads > 0 => hTotal = hPaged

----------------------------------------------------------------------------
(* Further claims about the change-tracking store                          *)

\* C32: an upsert that returns Unchanged changes nothing of the stored row
\* but last_checked: the fields, content_hash, first_seen, last_updated and
\* images_downloaded are as they were.
C32_UnchangedTouchesOnlyLastChecked ==
    \A k \in Upserts :
        LET e == log[k] IN
        e.result = "Unchanged" =>
            /\ e.before # <<>>
            /\ e.after[1] = [e.before[1] EXCEPT !.last_checked = e.now]

\* an Unchanged upsert whose record lists the subjects in another order
\* than the stored row, some time after the row was last updated
C32_Witness ==
    \E k \in Upserts :
        /\ log[k].result = "Unchanged"
        /\ log[k].rec.subjects # log[k].before[1].subjects
        /\ log[k].after[1].subjects = log[k].before[1].subjects
        /\ log[k].after[1].last_updated < log[k].now

\* C36: in every store state each row has first_seen <= last_updated <=
\* last_checked, and no upsert changes the first_seen of a row that exists.
C36_TimestampOrder ==
    /\ \A id \in DOMAIN store :
          /\ store[id].first_seen <= store[id].last_updated
          /\ store[id].last_updated <= store[id].last_checked
    /\ \A k \in Upserts :
          /\ log[k].after[1].first_seen <= log[k].after[1].last_updated
          /\ log[k].after[1].last_updated <= log[k].after[1].last_checked
          /\ log[k].before # <<>> =>
                log[k].after[1].first_seen = log[k].before[1].first_seen

\* a row that was inserted, then changed, then found unchanged: its three
\* timestamps are all different
C36_Witness ==
    \E id \in DOMAIN store :
        /\ store[id].first_seen < store[id].last_updated
        /\ store[id].last_updated < store[id].last_checked
        /\ Cardinality(UpsertsOf(id)) >= 3


----------------------------------------------------------------------------
(* visits of the run loops to ids that are already stored                  *)

\* C33: every visit of the run loop to an id the remote holds calls the
\* upsert for it, so that the row's last_checked is the time of the visit,
\* also on a visit that finds the content unchanged
C33_EveryVisitUpserts ==
    (/\ rLast.id # 0
     /\ rRemote[rLast.id] \in {"recA", "recB"}
     /\ rLast.id \notin rStoreErr) =>
        /\ rLast.outcome \in {"New", "Changed", "Unchanged"}
        /\ rLast.id \in DOMAIN store
        /\ store[rLast.id].last_checked = clock


----------------------------------------------------------------------------
(* the adaptive delay over a run                                           *)

\* C37: the delay of rate_limited_api_call never decreases over a run: a
\* call that is not answered 429 leaves it as it was, and a 429 never
\* lowers it
C37_DelayNeverLowered ==
    \A i \in 1..Len(calls) :
        /\ calls[i].outcome # "429" => calls[i].delay_after = calls[i].delay
        /\ calls[i].delay_after >= calls[i].delay
        /\ i < Len(calls) => calls[i + 1].delay = calls[i].delay_after

====
